---- MODULE Spec2Model ----
(***************************************************************************)
(* Live-signal pipeline of the basketball betting monitor:                 *)
(*   monitor.py            NCAABettingMonitor (run loop, analyze_game)     *)
(*   utils/confidence_scorer.py   ConfidenceScorer                         *)
(*   config.py             thresholds, weights, unit bands                 *)
(*                                                                         *)
(* Numbers.  Python floats are modelled as exact rationals <<n, d>> with   *)
(* d > 0, kept in lowest terms, so 6.6 is <<33, 5>> and 3.0 is <<3, 1>>.   *)
(* None is NoneNum for an optional number, NoneStr for an optional string  *)
(* and NoneDict for an optional dict.                                      *)
(***************************************************************************)
EXTENDS Integers, Sequences, FiniteSets, TLC

VARIABLES
    sport_mode,           \* monitor.sport_mode (config.SPORT_MODE)
    weights,              \* scorer.weights (the config.CONFIDENCE_WEIGHTS dict)
    triggered_games,      \* monitor.triggered_games
    game_states,          \* monitor.game_states
    results,              \* rows appended by csv_logger.log_game_result
    last_live_games_time, \* monitor.last_live_games_time
    now,                  \* datetime.now(), in seconds since the monitor started
    pc,                   \* position of the run loop
    queue,                \* games_with_odds still to be analyzed in this poll
    game,                 \* the game handed to analyze_game
    frame,                \* the locals of analyze_game at its end
    args,                 \* arguments of the direct calls (scorer, resolvers)
    ret,                  \* the values those calls returned, per bet_type
    unit_call,            \* the last direct _get_unit_recommendation call
    prev,                 \* args and returns of the calls made before a pace change
    applied,              \* the update_weights arguments applied so far, in order
    scoring,              \* position and locals of a calculate_confidence call in progress
    tracked,              \* per game, the log_data of the polls tracked for it
    ended,                \* the direct _handle_game_end calls made so far, in order
    backfilled,           \* the last backfill calculate_outcome call
    feed,                 \* what the scoreboard and odds feeds returned, poll by poll
    polled,               \* the analyze_game calls that reached log_data, in order
    report,               \* the last analyze_ppm_performance call
    all_live              \* whether every scoreboard fetched so far had a live game

vars == <<sport_mode, weights, triggered_games, game_states, results,
          last_live_games_time, now, pc, queue, game, frame, args, ret, unit_call,
          prev, applied, scoring, tracked, ended, backfilled, feed, polled,
          report, all_live>>

\* what the step-by-step scorer calls and the direct resolver calls add to the
\* state
callVars == <<prev, applied, scoring, tracked, ended, backfilled, feed, polled,
              report, all_live>>

monitorVars == <<sport_mode, triggered_games, game_states, results,
                 last_live_games_time, now, pc, queue, game, frame>>

-----------------------------------------------------------------------------
(* Rational arithmetic *)

NoneNum == <<>>
NoneStr == "None"
NoneDict == [None |-> TRUE]
EmptyDict == [k \in {} |-> 0]

AbsInt(i) == IF i < 0 THEN -i ELSE i

RECURSIVE Gcd(_, _)
Gcd(a, b) == IF b = 0 THEN a ELSE Gcd(b, a % b)

\* n/d divided through by g, with the sign carried by the numerator
Reduce(n, d, g) ==
    IF d < 0 THEN <<-(n \div g), -(d \div g)>> ELSE <<n \div g, d \div g>>

\* n/d in lowest terms with a positive denominator (d # 0)
Rat(n, d) ==
    IF d = 1 THEN <<n, 1>> ELSE Reduce(n, d, Gcd(AbsInt(n), AbsInt(d)))

R(i) == <<i, 1>>
Zero == <<0, 1>>

Add(x, y) == Rat(x[1] * y[2] + y[1] * x[2], x[2] * y[2])
Neg(x) == <<-x[1], x[2]>>
Sub(x, y) == Rat(x[1] * y[2] - y[1] * x[2], x[2] * y[2])
Mul(x, y) == Rat(x[1] * y[1], x[2] * y[2])
\* x / y for y # 0
Div(x, y) == Rat(x[1] * y[2], x[2] * y[1])
Lt(x, y) == x[1] * y[2] < y[1] * x[2]
Gt(x, y) == y[1] * x[2] < x[1] * y[2]
Le(x, y) == x[1] * y[2] <= y[1] * x[2]
Ge(x, y) == y[1] * x[2] <= x[1] * y[2]
Abs(x) == <<AbsInt(x[1]), x[2]>>
Max(x, y) == IF Lt(x, y) THEN y ELSE x
Min(x, y) == IF Lt(y, x) THEN y ELSE x

\* the integer nearest to n/d (d > 0), a tie going to the even neighbour
\* (\div rounds toward minus infinity and % is never negative)
RoundInt(n, d) ==
    (n \div d) + (IF \/ 2 * (n % d) > d
                     \/ (2 * (n % d) = d /\ (n \div d) % 2 = 1)
                  THEN 1 ELSE 0)

\* Python round(x, k) with scale = 10^k
Round(x, scale) == Rat(RoundInt(x[1] * scale, x[2]), scale)

\* dict.get(key, default)
Get(d, key, default) == IF key \in DOMAIN d THEN d[key] ELSE default

\* variant of Truthy: only None is falsy
TruthyNotNone(d) == d # NoneDict

\* truth value of an optional dict: None and {} are falsy
Truthy(d) == d # NoneDict /\ DOMAIN d # {}

-----------------------------------------------------------------------------
(* config.py *)

PPM_THRESHOLD_UNDER == R(3)
PPM_THRESHOLD_OVER == R(3)
PPM_DIFFERENCE_THRESHOLD == Rat(1, 2)


\* CONFIDENCE_WEIGHTS
CONFIDENCE_WEIGHTS ==
    [slow_pace_threshold |-> R(67), fast_pace_threshold |-> R(72),
     slow_pace_bonus |-> R(7), medium_pace_bonus |-> R(3),
     fast_pace_penalty |-> R(-6),
     low_3p_rate_threshold |-> Rat(30, 100),
     high_3p_pct_threshold |-> Rat(38, 100),
     low_3p_rate_bonus |-> R(5), high_3p_pct_penalty |-> R(-5),
     low_ft_rate_threshold |-> R(18), high_ft_rate_threshold |-> R(24),
     low_ft_rate_bonus |-> R(4), high_ft_rate_penalty |-> R(-6),
     high_to_rate_threshold |-> R(14), high_to_rate_bonus |-> R(3),
     strong_defense_threshold |-> R(95), strong_defense_bonus |-> R(6),
     both_slow_bonus |-> R(9), both_strong_defense_bonus |-> R(6),
     pace_mismatch_penalty |-> R(-5)]

\* UNIT_SIZES: band name -> (low, high)
UNIT_SIZES ==
    [no_bet |-> <<R(0), R(40)>>, low |-> <<R(41), R(60)>>,
     medium |-> <<R(61), R(75)>>, high |-> <<R(76), R(85)>>,
     max |-> <<R(86), R(100)>>]

-----------------------------------------------------------------------------------------------------------------------------------------------------
(* utils/confidence_scorer.py: the factor evaluators.  Each returns         *)
(* <<score, details>>; a formatted explanation string is modelled by its    *)
(* fixed leading words.  An operator named ...Result takes the values the   *)
(* evaluator has computed so far as parameters.                             *)

\* details["total"] = score; return score, details
WithTotal(score, details) == <<score, details @@ [total |-> score]>>

\* a details entry that is written only under a condition
Entry(cond, key, value) == IF cond THEN (key :> value) ELSE EmptyDict

\* a weight that is added only under a condition
Points(cond, weight) == IF cond THEN weight ELSE Zero

\* variant of PaceClass: a pace at the fast threshold counts as fast
PaceClassInclusive(w, pace) ==
    IF Lt(pace, w.slow_pace_threshold) THEN <<w.slow_pace_bonus, "Slow pace">>
    ELSE IF Ge(pace, w.fast_pace_threshold)
         THEN <<w.fast_pace_penalty, "Fast pace">>
         ELSE <<w.medium_pace_bonus, "Medium pace">>

\* one team's pace class in _evaluate_pace: <<contribution, explanation>>
PaceClass(w, pace) ==
    IF Lt(pace, w.slow_pace_threshold) THEN <<w.slow_pace_bonus, "Slow pace">>
    ELSE IF Gt(pace, w.fast_pace_threshold)
         THEN <<w.fast_pace_penalty, "Fast pace">>
         ELSE <<w.medium_pace_bonus, "Medium pace">>

TeamPace(m) == Get(m, "pace_per_game", Get(m, "pace", R(70)))

PaceResult(h, a) == WithTotal(Add(h[1], a[1]), [home |-> h[2], away |-> a[2]])

_evaluate_pace(w, home, away) ==
    PaceResult(PaceClass(w, TeamPace(home)), PaceClass(w, TeamPace(away)))

\* three_p_pct is stored either as a percentage (> 1) or as a fraction
ThreePPct(m) ==
    IF Gt(Get(m, "three_p_pct", R(35)), R(1))
    THEN Div(Get(m, "three_p_pct", R(35)), R(100))
    ELSE Get(m, "three_p_pct", Rat(35, 100))

\* hr, hp, ar, ap: home/away low 3P rate, high 3P%
ThreePointResult(w, hr, hp, ar, ap) ==
    WithTotal(Add(Add(Points(hr, w.low_3p_rate_bonus), Points(hp, w.high_3p_pct_penalty)),
                  Add(Points(ar, w.low_3p_rate_bonus), Points(ap, w.high_3p_pct_penalty))),
              Entry(hr, "home_rate", "Low 3P rate") @@ Entry(hp, "home_pct", "High 3P%")
              @@ Entry(ar, "away_rate", "Low 3P rate") @@ Entry(ap, "away_pct", "High 3P%"))

_evaluate_three_point(w, home, away) ==
    ThreePointResult(w,
        Lt(Get(home, "three_p_rate", Rat(35, 100)), w.low_3p_rate_threshold),
        Gt(ThreePPct(home), w.high_3p_pct_threshold),
        Lt(Get(away, "three_p_rate", Rat(35, 100)), w.low_3p_rate_threshold),
        Gt(ThreePPct(away), w.high_3p_pct_threshold))

\* one team's free-throw class: <<contribution, explanation or NoneStr>>
FtClass(w, rate) ==
    IF Lt(rate, w.low_ft_rate_threshold) THEN <<w.low_ft_rate_bonus, "Low FT rate">>
    ELSE IF Gt(rate, w.high_ft_rate_threshold)
         THEN <<w.high_ft_rate_penalty, "High FT rate">>
         ELSE <<Zero, NoneStr>>

FreeThrowsResult(h, a) ==
    WithTotal(Add(h[1], a[1]),
              Entry(h[2] # NoneStr, "home", h[2]) @@ Entry(a[2] # NoneStr, "away", a[2]))

_evaluate_free_throws(w, home, away) ==
    FreeThrowsResult(FtClass(w, Get(home, "ft_rate", R(20))),
                     FtClass(w, Get(away, "ft_rate", R(20))))

\* h, a: home/away turnover rate above the threshold
TurnoversResult(w, h, a) ==
    WithTotal(Add(Points(h, w.high_to_rate_bonus), Points(a, w.high_to_rate_bonus)),
              Entry(h, "home", "High TO rate") @@ Entry(a, "away", "High TO rate"))

_evaluate_turnovers(w, home, away) ==
    TurnoversResult(w, Gt(Get(home, "to_rate", R(12)), w.high_to_rate_threshold),
                       Gt(Get(away, "to_rate", R(12)), w.high_to_rate_threshold))

\* h, a: home/away defensive efficiency below the threshold
DefenseResult(w, h, a) ==
    WithTotal(Add(Points(h, w.strong_defense_bonus), Points(a, w.strong_defense_bonus)),
              Entry(h, "home", "Strong defense") @@ Entry(a, "away", "Strong defense"))

_evaluate_defense(w, home, away) ==
    DefenseResult(w, Lt(Get(home, "def_efficiency", R(100)), w.strong_defense_threshold),
                     Lt(Get(away, "def_efficiency", R(100)), w.strong_defense_threshold))

\* the foul bucket of total_fouls: <<score, details key, explanation>>
FoulBand(total_fouls) ==
    IF Gt(total_fouls, R(20)) THEN <<R(8), "very_high", "Very high fouls">>
    ELSE IF Gt(total_fouls, R(15)) THEN <<R(5), "high", "High fouls">>
    ELSE IF Lt(total_fouls, R(8)) THEN <<R(-3), "low", "Low fouls">>
    ELSE <<Zero, NoneStr, NoneStr>>

FoulsResult(home_fouls, away_fouls, band) ==
    <<band[1],
      Entry(band[2] # NoneStr, band[2], band[3])
      @@ [total |-> band[1], home_fouls |-> home_fouls, away_fouls |-> away_fouls]>>

_evaluate_fouls(home_fouls, away_fouls) ==
    IF home_fouls = NoneNum \/ away_fouls = NoneNum
    THEN <<Zero, [total |-> Zero]>>
    ELSE FoulsResult(home_fouls, away_fouls, FoulBand(Add(home_fouls, away_fouls)))

MatchupResult(w, both_slow, both_def, mismatch) ==
    WithTotal(Add(Add(Points(both_slow, w.both_slow_bonus),
                      Points(both_def, w.both_strong_defense_bonus)),
                  Points(mismatch, w.pace_mismatch_penalty)),
              Entry(both_slow, "both_slow", w.both_slow_bonus)
              @@ Entry(both_def, "both_strong_def", w.both_strong_defense_bonus)
              @@ Entry(mismatch, "pace_mismatch", w.pace_mismatch_penalty))

MatchupFlags(w, home_pace, away_pace, home_def, away_def) ==
    MatchupResult(w,
        Lt(home_pace, w.slow_pace_threshold) /\ Lt(away_pace, w.slow_pace_threshold),
        /\ Lt(home_def, w.strong_defense_threshold)
        /\ Lt(away_def, w.strong_defense_threshold),
        \/ (Lt(home_pace, w.slow_pace_threshold) /\ Gt(away_pace, w.fast_pace_threshold))
        \/ (Lt(away_pace, w.slow_pace_threshold) /\ Gt(home_pace, w.fast_pace_threshold)))

_evaluate_matchup(w, home, away) ==
    MatchupFlags(w, TeamPace(home), TeamPace(away),
                 Get(home, "def_efficiency", R(100)), Get(away, "def_efficiency", R(100)))

_evaluate_ppm_severity(required_ppm) ==
    IF Gt(required_ppm, R(6)) THEN R(12)
    ELSE IF Gt(required_ppm, Rat(11, 2)) THEN R(8)
    ELSE IF Gt(required_ppm, R(5)) THEN R(4)
    ELSE IF Gt(required_ppm, Rat(9, 2)) THEN R(0)
    ELSE IF Gt(required_ppm, Rat(7, 2)) THEN R(-4)
    ELSE IF Gt(required_ppm, Rat(5, 2)) THEN R(-8)
    ELSE IF Gt(required_ppm, R(2)) THEN R(-10)
    ELSE R(-12)

\* the bonus for a current pace well above the required one
PaceRatioBonus(pace_ratio) ==
    IF Gt(pace_ratio, R(2)) THEN R(10)
    ELSE IF Gt(pace_ratio, Rat(3, 2)) THEN R(5)
    ELSE R(0)

_evaluate_over_pace(required_ppm, current_ppm) ==
    Add(IF Lt(required_ppm, Rat(1, 2)) THEN R(15)
        ELSE IF Lt(required_ppm, R(1)) THEN R(10)
        ELSE IF Lt(required_ppm, Rat(3, 2)) THEN R(5)
        ELSE R(0),
        IF Gt(current_ppm, Zero) /\ Gt(required_ppm, Zero)
        THEN PaceRatioBonus(Div(current_ppm, required_ppm))
        ELSE R(0))

\* variant of InBand: the lower end of a band excluded
InBandOpen(band, confidence) == Lt(band[1], confidence) /\ Le(confidence, band[2])

InBand(band, confidence) == Le(band[1], confidence) /\ Le(confidence, band[2])

_get_unit_recommendation(confidence) ==
    IF InBand(UNIT_SIZES.no_bet, confidence) THEN R(0)
    ELSE IF InBand(UNIT_SIZES.low, confidence) THEN Rat(1, 2)
    ELSE IF InBand(UNIT_SIZES.medium, confidence) THEN R(1)
    ELSE IF InBand(UNIT_SIZES.high, confidence) THEN R(2)
    ELSE IF InBand(UNIT_SIZES.max, confidence) THEN R(3)
    ELSE R(0)

\* live - season shooting variance of one team, or NoneNum when not comparable
ShootingVariance(metrics, live_stats) ==
    IF /\ Truthy(live_stats) /\ Truthy(metrics)
       /\ Gt(Get(live_stats, "fg_pct", Zero), Zero)
       /\ Gt(Get(metrics, "efg_pct", Zero), Zero)
    THEN Sub(Get(live_stats, "fg_pct", Zero), Get(metrics, "efg_pct", Zero))
    ELSE NoneNum

\* the score and note of an average variance
ShootingBand(avg_variance) ==
    IF Gt(avg_variance, R(5)) THEN <<R(-8), "Hot shooting - favors OVER">>
    ELSE IF Lt(avg_variance, R(-5)) THEN <<R(8), "Cold shooting - favors UNDER">>
    ELSE IF Gt(avg_variance, R(2)) THEN <<R(-4), "Above average shooting">>
    ELSE IF Lt(avg_variance, R(-2)) THEN <<R(4), "Below average shooting">>
    ELSE <<Zero, NoneStr>>

\* sum(shooting_variance) / len(shooting_variance), for a non-empty list
AvgVariance(hv, av) ==
    IF hv = NoneNum THEN av
    ELSE IF av = NoneNum THEN hv
    ELSE Div(Add(hv, av), R(2))

ShootingResult(hv, av, avg_variance, band) ==
    <<band[1],
      Entry(hv # NoneNum, "home_variance", Round(hv, 10))
      @@ Entry(av # NoneNum, "away_variance", Round(av, 10))
      @@ [avg_variance |-> Round(avg_variance, 10)]
      @@ Entry(band[2] # NoneStr, "note", band[2])>>

ShootingVariances(hv, av) ==
    IF hv = NoneNum /\ av = NoneNum THEN <<Zero, EmptyDict>>
    ELSE ShootingResult(hv, av, AvgVariance(hv, av), ShootingBand(AvgVariance(hv, av)))

_evaluate_live_shooting(home_metrics, away_metrics, home_live_stats, away_live_stats) ==
    IF ~Truthy(home_live_stats) /\ ~Truthy(away_live_stats)
    THEN <<Zero, [note |-> "No live stats available"]>>
    ELSE ShootingVariances(ShootingVariance(home_metrics, home_live_stats),
                           ShootingVariance(away_metrics, away_live_stats))

\* sum of one key over the live-stat dicts that are present
LiveSum(home_live_stats, away_live_stats, key) ==
    Add(IF Truthy(home_live_stats) THEN Get(home_live_stats, key, Zero) ELSE Zero,
        IF Truthy(away_live_stats) THEN Get(away_live_stats, key, Zero) ELSE Zero)

FtImpactBand(total_ft_attempts) ==
    IF Gt(total_ft_attempts, R(20)) THEN <<R(6), "Very high FT rate - game slowing">>
    ELSE IF Gt(total_ft_attempts, R(15)) THEN <<R(4), "High FT rate - favors UNDER">>
    ELSE IF Gt(total_ft_attempts, R(10)) THEN <<R(2), "Moderate FT rate">>
    ELSE <<R(-2), "Low FT rate - game flowing">>

FtImpactResult(total_ft_attempts, band) ==
    <<band[1], [total_ft_attempts |-> total_ft_attempts, note |-> band[2]]>>

FtImpactTotals(total_ft_attempts) ==
    FtImpactResult(total_ft_attempts, FtImpactBand(total_ft_attempts))

_evaluate_live_ft_impact(home_live_stats, away_live_stats) ==
    IF ~Truthy(home_live_stats) /\ ~Truthy(away_live_stats)
    THEN <<Zero, [note |-> "No live stats available"]>>
    ELSE FtImpactTotals(LiveSum(home_live_stats, away_live_stats, "ft_attempted"))

\* the band by turnover rate (attempts known) 
ToRateBand(to_rate) ==
    IF Gt(to_rate, R(2)) THEN <<R(5), "Very high turnover rate - favors UNDER">>
    ELSE IF Gt(to_rate, Rat(3, 2)) THEN <<R(3), "High turnover rate">>
    ELSE IF Lt(to_rate, R(1)) THEN <<R(-3), "Low turnover rate - clean game">>
    ELSE <<Zero, NoneStr>>

\* the band by absolute turnover count (no attempts)
ToCountBand(total_turnovers) ==
    IF Gt(total_turnovers, R(15)) THEN <<R(4), "High turnovers - fewer possessions">>
    ELSE IF Lt(total_turnovers, R(8)) THEN <<R(-2), "Low turnovers">>
    ELSE <<Zero, NoneStr>>

\* to_rate is NoneNum when there are no field-goal attempts
LiveTurnoversResult(total_turnovers, total_fg_attempts, to_rate, band) ==
    <<band[1],
      [total_turnovers |-> total_turnovers, total_fg_attempts |-> total_fg_attempts]
      @@ Entry(to_rate # NoneNum, "to_rate", Round(to_rate, 100))
      @@ Entry(band[2] # NoneStr, "note", band[2])>>

LiveTurnoversRate(total_turnovers, total_fg_attempts, to_rate) ==
    LiveTurnoversResult(total_turnovers, total_fg_attempts, to_rate,
                        IF to_rate # NoneNum THEN ToRateBand(to_rate)
                        ELSE ToCountBand(total_turnovers))

LiveTurnoversTotals(total_turnovers, total_fg_attempts) ==
    LiveTurnoversRate(total_turnovers, total_fg_attempts,
                      IF Gt(total_fg_attempts, Zero)
                      THEN Div(total_turnovers, Div(total_fg_attempts, R(10)))
                      ELSE NoneNum)

_evaluate_live_turnovers(home_live_stats, away_live_stats) ==
    IF ~Truthy(home_live_stats) /\ ~Truthy(away_live_stats)
    THEN <<Zero, [note |-> "No live stats available"]>>
    ELSE LiveTurnoversTotals(LiveSum(home_live_stats, away_live_stats, "turnovers"),
                             LiveSum(home_live_stats, away_live_stats, "fg_attempted"))

ReboundBand(off_reb_pct) ==
    IF Gt(off_reb_pct, R(35))
        THEN <<R(-4), "High offensive rebounding - extra possessions">>
    ELSE IF Gt(off_reb_pct, R(30)) THEN <<R(-2), "Above average offensive rebounding">>
    ELSE IF Lt(off_reb_pct, R(20))
        THEN <<R(2), "Low offensive rebounding - limited second chances">>
    ELSE <<Zero, NoneStr>>

\* off_reb_pct is NoneNum when there are no rebounds
LiveReboundingResult(total_off_rebounds, total_rebounds, off_reb_pct, band) ==
    <<band[1],
      [total_off_rebounds |-> total_off_rebounds, total_rebounds |-> total_rebounds]
      @@ Entry(off_reb_pct # NoneNum, "off_reb_pct", Round(off_reb_pct, 10))
      @@ Entry(band[2] # NoneStr, "note", band[2])>>

LiveReboundingPct(total_off_rebounds, total_rebounds, off_reb_pct) ==
    LiveReboundingResult(total_off_rebounds, total_rebounds, off_reb_pct,
                         IF off_reb_pct # NoneNum THEN ReboundBand(off_reb_pct)
                         ELSE <<Zero, NoneStr>>)

LiveReboundingTotals(total_off_rebounds, total_rebounds) ==
    LiveReboundingPct(total_off_rebounds, total_rebounds,
                      IF Gt(total_rebounds, Zero)
                      THEN Mul(Div(total_off_rebounds, total_rebounds), R(100))
                      ELSE NoneNum)

_evaluate_live_rebounding(home_live_stats, away_live_stats) ==
    IF ~Truthy(home_live_stats) /\ ~Truthy(away_live_stats)
    THEN <<Zero, [note |-> "No live stats available"]>>
    ELSE LiveReboundingTotals(
             LiveSum(home_live_stats, away_live_stats, "rebounds_offensive"),
             LiveSum(home_live_stats, away_live_stats, "rebounds_total"))

-----------------------------------------------------------------------------
(* ConfidenceScorer.calculate_confidence *)

\* variant of Multiplier: +1 for either side
MultiplierUnder(bet_type) == R(1)

\* multiplier = -1 if bet_type == "over" else 1
Multiplier(bet_type) == IF bet_type = "over" THEN R(-1) ELSE R(1)

\* the PPM/pace term, added without the multiplier
PpmScore(required_ppm, bet_type, current_ppm) ==
    IF bet_type = "over" THEN _evaluate_over_pace(required_ppm, current_ppm)
    ELSE _evaluate_ppm_severity(required_ppm)

\* the evaluators run before the PPM term: breakdown key -> <<score, details>>
SeasonFactors(w, home_metrics, away_metrics, home_fouls, away_fouls) ==
    [pace |-> _evaluate_pace(w, home_metrics, away_metrics),
     three_point |-> _evaluate_three_point(w, home_metrics, away_metrics),
     free_throw |-> _evaluate_free_throws(w, home_metrics, away_metrics),
     turnover |-> _evaluate_turnovers(w, home_metrics, away_metrics),
     defense |-> _evaluate_defense(w, home_metrics, away_metrics),
     fouls |-> _evaluate_fouls(home_fouls, away_fouls),
     matchup |-> _evaluate_matchup(w, home_metrics, away_metrics)]

\* the evaluators run when home_live_stats or away_live_stats is truthy, else
\* none
LiveFactors(home_metrics, away_metrics, home_live_stats, away_live_stats) ==
    IF ~Truthy(home_live_stats) /\ ~Truthy(away_live_stats) THEN EmptyDict
    ELSE
    [live_shooting |-> _evaluate_live_shooting(home_metrics, away_metrics,
                                               home_live_stats, away_live_stats),
     live_ft_impact |-> _evaluate_live_ft_impact(home_live_stats, away_live_stats),
     live_turnovers |-> _evaluate_live_turnovers(home_live_stats, away_live_stats),
     live_rebounding |-> _evaluate_live_rebounding(home_live_stats, away_live_stats)]

\* the "score += factor_score * multiplier" statements over the factors of fs
RECURSIVE SumFactors(_, _, _)
SumFactors(fs, names, multiplier) ==
    IF names = {} THEN Zero
    ELSE Add(Mul(fs[CHOOSE k \in names : TRUE][1], multiplier),
             SumFactors(fs, names \ {CHOOSE k \in names : TRUE}, multiplier))

\* "Cap score at 0-100" to the return statement
ConfidenceResult(bet_type, season, ppm_score, live, score, final_score) ==
    [confidence |-> final_score,
     unit_recommendation |-> _get_unit_recommendation(final_score),
     breakdown |->
         [base |-> R(50),
          bet_type |-> IF bet_type \in {NoneStr, ""} THEN "under" ELSE bet_type]
         @@ [k \in DOMAIN season |-> season[k][2]]
         @@ [ppm_severity |-> ppm_score]
         @@ [k \in DOMAIN live |-> live[k][2]]
         @@ [total_score |-> score, final_score |-> final_score]]

\* variant of CapScore: the running score returned as it is
CapScoreUncapped(bet_type, season, ppm_score, live, score) ==
    ConfidenceResult(bet_type, season, ppm_score, live, score, score)

\* final_score = max(0, min(100, score))
CapScore(bet_type, season, ppm_score, live, score) ==
    ConfidenceResult(bet_type, season, ppm_score, live, score,
                     Max(R(0), Min(R(100), score)))

\* the running score once every factor has been added
TotalScore(bet_type, season, ppm_score, live) ==
    CapScore(bet_type, season, ppm_score, live,
             Add(Add(Add(R(50), SumFactors(season, DOMAIN season, Multiplier(bet_type))),
                     ppm_score),
                 SumFactors(live, DOMAIN live, Multiplier(bet_type))))

calculate_confidence(w, home_metrics, away_metrics, required_ppm, current_total, ou_line, bet_type, current_ppm, home_fouls, away_fouls, home_live_stats, away_live_stats) ==
    IF ~Truthy(home_metrics) \/ ~Truthy(away_metrics)
    THEN [confidence |-> R(0), unit_recommendation |-> R(0),
          breakdown |-> [error |-> "Missing team data"]]
    ELSE TotalScore(bet_type,
                    SeasonFactors(w, home_metrics, away_metrics, home_fouls, away_fouls),
                    PpmScore(required_ppm, bet_type, current_ppm),
                    LiveFactors(home_metrics, away_metrics,
                                home_live_stats, away_live_stats))

-----
(* utils/espn_live_fetcher.py, utils/team_stats.py: what the monitor reads  *)

\* ESPNLiveFetcher._parse_game: the game dict built from one scoreboard event
\* (status_state is pre, in or post; the display clock is minutes:seconds)
_parse_game(game_id, home, away, home_score, away_score, status_state, period_number, minutes_remaining, seconds_remaining) ==
    [game_id |-> game_id, home_team |-> home, away_team |-> away,
     home_score |-> home_score, away_score |-> away_score,
     status |-> status_state, period |-> period_number,
     minutes_remaining |-> minutes_remaining,
     seconds_remaining |-> seconds_remaining,
     is_live |-> (status_state = "in"),
     completed |-> (status_state = "post")]

\* the season metrics the stats fetcher holds; a team it does not know has none
TeamStats ==
    [SlowU |-> [team_name |-> "SlowU", pace |-> R(64), def_efficiency |-> R(92),
                three_p_rate |-> Rat(28, 100), three_p_pct |-> R(33),
                ft_rate |-> R(16), to_rate |-> R(15)],
     FastTech |-> [team_name |-> "FastTech", pace |-> R(75), def_efficiency |-> R(105),
                   three_p_rate |-> Rat(40, 100), three_p_pct |-> R(39),
                   ft_rate |-> R(26), to_rate |-> R(11)]]

\* TeamStatsManager.get_team_metrics: None for an unknown team, else the
\* fetcher's metrics with pace_per_game added
get_team_metrics(team_name) ==
    IF team_name \notin DOMAIN TeamStats THEN NoneDict
    ELSE LET metrics == TeamStats[team_name]
         IN  [pace_per_game |-> Get(metrics, "pace", R(70))] @@ metrics

get_matchup_metrics(home_team, away_team) ==
    <<get_team_metrics(home_team), get_team_metrics(away_team)>>

-----------------------------------------------------------------------------
(* monitor.py: NCAABettingMonitor *)

POLL_INTERVAL == 15
no_games_timeout == 300

\* game["bookmakers"] is modelled as the sequence of its bookmakers, each
\* reduced to the point of the first outcome of its totals market, or NoneNum
\* when it has no totals market with outcomes
RECURSIVE FirstPoint(_)
FirstPoint(bookmakers) ==
    IF bookmakers = <<>> THEN NoneNum
    ELSE IF Head(bookmakers) # NoneNum THEN Head(bookmakers)
    ELSE FirstPoint(Tail(bookmakers))

_get_totals_line(g) ==
    IF Get(g, "bookmakers", <<>>) = <<>> THEN NoneNum
    ELSE FirstPoint(Get(g, "bookmakers", <<>>))

\* minutes in regulation: 48 if sport_mode == "nba" else 40
TotalGameMinutes(mode) == IF mode = "nba" THEN R(48) ELSE R(40)

\* time_remaining_minutes + time_remaining_seconds / 60
PeriodClock(g) ==
    Add(R(Get(g, "minutes_remaining", 0)), Rat(Get(g, "seconds_remaining", 0), 60))

\* variant of TimeRemainingIn: the period clock alone, whatever the period
TimeRemainingClockOnly(mode, period, clock) == clock

\* the if/elif chain over the period, clock being what PeriodClock gives
TimeRemainingIn(mode, period, clock) ==
    IF mode = "nba"
    THEN IF period >= 5 THEN clock
         ELSE IF period = 4 THEN clock
         ELSE IF period = 3 THEN Add(R(12), clock)
         ELSE IF period = 2 THEN Add(R(24), clock)
         ELSE IF period = 1 THEN Add(R(36), clock)
         ELSE R(48)
    ELSE IF period >= 3 THEN clock
         ELSE IF period = 2 THEN clock
         ELSE IF period = 1 THEN Add(R(20), clock)
         ELSE R(40)

\* analyze_game, "Calculate total time remaining"
total_time_remaining(mode, g) ==
    TimeRemainingIn(mode, Get(g, "period", 0), PeriodClock(g))

\* variant of RequiredPpm: the points already scored beyond the line, per minute
\* (the sign of points_needed reversed)
RequiredPpmReversed(ou_line, total_points, time_remaining) ==
    IF Gt(time_remaining, Zero)
    THEN Div(Sub(R(total_points), ou_line), time_remaining)
    ELSE Zero

\* required_ppm = (points_needed / total_time_remaining) if total_time_remaining > 0 else 0
RequiredPpm(ou_line, total_points, time_remaining) ==
    IF Gt(time_remaining, Zero)
    THEN Div(Sub(ou_line, R(total_points)), time_remaining)
    ELSE Zero

\* variant of MinutesElapsed: the 48-minute baseline in either sport
MinutesElapsedOf48(mode, time_remaining) == Sub(R(48), time_remaining)

\* minutes_elapsed = (48 if nba else 40) - total_time_remaining
MinutesElapsed(mode, time_remaining) == Sub(TotalGameMinutes(mode), time_remaining)

\* current_ppm = (total_points / minutes_elapsed) if minutes_elapsed > 0 else 0
CurrentPpm(total_points, minutes_elapsed) ==
    IF Gt(minutes_elapsed, Zero) THEN Div(R(total_points), minutes_elapsed) ELSE Zero

\* (ou_line * weight_line) + (pace_total * (1 - weight_line))
Blend(ou_line, pace_total, weight_line) ==
    Add(Mul(ou_line, weight_line), Mul(pace_total, Sub(R(1), weight_line)))

\* pace_total is total_points + current_ppm * total_time_remaining
ProjectionFrom(ou_line, pace_total, minutes_elapsed) ==
    IF Lt(minutes_elapsed, R(5))
    THEN Blend(ou_line, pace_total, Sub(R(1), Div(minutes_elapsed, R(5))))
    ELSE pace_total

ProjectedFinalScore(ou_line, total_points, current_ppm, time_remaining, minutes_elapsed) ==
    ProjectionFrom(ou_line, Add(R(total_points), Mul(current_ppm, time_remaining)),
                   minutes_elapsed)

\* variant of Trigger1: the under branch also taken at the threshold itself
Trigger1Inclusive(required_ppm) ==
    IF Ge(required_ppm, PPM_THRESHOLD_UNDER) THEN "under"
    ELSE IF Lt(required_ppm, PPM_THRESHOLD_OVER) THEN "over"
    ELSE NoneStr

\* "Trigger 1: Required PPM thresholds": the side it sets, NoneStr when neither
\* branch fires
Trigger1(required_ppm) ==
    IF Gt(required_ppm, PPM_THRESHOLD_UNDER) THEN "under"
    ELSE IF Lt(required_ppm, PPM_THRESHOLD_OVER) THEN "over"
    ELSE NoneStr

\* "Trigger 2: PPM difference": whether it fires
Trigger2(ppm_difference) == Gt(Abs(ppm_difference), PPM_DIFFERENCE_THRESHOLD)

\* variant of Reasons1: Trigger 1 sets the side without recording a reason
Reasons1Silent(side1) == <<>>

\* the reason Trigger 1 appends for the side it set
Reasons1(side1) ==
    IF side1 = "under" THEN <<"required_ppm > PPM_THRESHOLD_UNDER">>
    ELSE IF side1 = "over" THEN <<"required_ppm < PPM_THRESHOLD_OVER">>
    ELSE <<>>

\* variant of Decide: Trigger 2 sets the side whenever it fires
DecideOverwriting(side1, fired2, ppm_difference) ==
    [bet_type |-> IF fired2
                  THEN (IF Gt(ppm_difference, Zero) THEN "over" ELSE "under")
                  ELSE side1,
     trigger_flag |-> (side1 # NoneStr \/ fired2),
     trigger_reasons |->
         Reasons1(side1)
         \o (IF fired2 THEN <<"ppm_diff > PPM_DIFFERENCE_THRESHOLD">> ELSE <<>>)]

\* bet_type, trigger_flag and trigger_reasons after both triggers, side1 being
\* what Trigger 1 set and fired2 whether Trigger 2 fired
Decide(side1, fired2, ppm_difference) ==
    [bet_type |-> IF fired2 /\ side1 = NoneStr
                  THEN (IF Gt(ppm_difference, Zero) THEN "over" ELSE "under")
                  ELSE side1,
     trigger_flag |-> (side1 # NoneStr \/ fired2),
     trigger_reasons |->
         Reasons1(side1)
         \o (IF fired2 THEN <<"ppm_diff > PPM_DIFFERENCE_THRESHOLD">> ELSE <<>>)]

TriggerDecision(required_ppm, ppm_difference) ==
    Decide(Trigger1(required_ppm), Trigger2(ppm_difference), ppm_difference)

Upper(str) ==
    IF str = "under" THEN "UNDER" ELSE IF str = "over" THEN "OVER" ELSE str

\* str(key) as Python formats it inside an f-string
Str(key) == key

\* d[key] = value
Put(d, key, value) == (key :> value) @@ d

\* x or {}
OrEmpty(d) == IF Truthy(d) THEN d ELSE EmptyDict

NoFrame == [stage |-> "none"]

\* analyze_game is modelled statement group by statement group; each operator
\* below takes the locals l assigned so far and returns them extended.

\* "Extract game data" to "Get O/U line"
GameLocals(mode, g) ==
    [game_id |-> Get(g, "game_id", NoneStr),
     home_team |-> Get(g, "home_team", NoneStr),
     away_team |-> Get(g, "away_team", NoneStr),
     home_score |-> Get(g, "home_score", 0),
     away_score |-> Get(g, "away_score", 0),
     total_points |-> Get(g, "home_score", 0) + Get(g, "away_score", 0),
     period |-> Get(g, "period", 0),
     minutes_remaining |-> Get(g, "minutes_remaining", 0),
     seconds_remaining |-> Get(g, "seconds_remaining", 0),
     total_time_remaining |-> total_time_remaining(mode, g),
     ou_line |-> _get_totals_line(g)]

\* "Calculate required PPM to hit over"
RequiredLocals(l) ==
    l @@ [required_ppm |-> RequiredPpm(l.ou_line, l.total_points, l.total_time_remaining)]

\* "Calculate current scoring pace": minutes_elapsed
ElapsedLocals(mode, l) ==
    l @@ [minutes_elapsed |-> MinutesElapsed(mode, l.total_time_remaining)]

\* "Calculate current scoring pace": current_ppm
CurrentLocals(l) ==
    l @@ [current_ppm |-> CurrentPpm(l.total_points, l.minutes_elapsed)]

\* "Calculate PPM difference" and "Calculate projected final score"
ProjectionLocals(l) ==
    l @@ [ppm_difference |-> Sub(l.current_ppm, l.required_ppm),
          projected_final_score |->
              ProjectedFinalScore(l.ou_line, l.total_points, l.current_ppm,
                                  l.total_time_remaining, l.minutes_elapsed)]

\* "Determine bet type and if trigger condition is met"
TriggerLocals(l) == l @@ TriggerDecision(l.required_ppm, l.ppm_difference)

\* "Get team metrics"
MetricsLocals(l) ==
    l @@ [home_metrics |-> get_matchup_metrics(l.home_team, l.away_team)[1],
          away_metrics |-> get_matchup_metrics(l.home_team, l.away_team)[2]]

\* "Calculate confidence score (even if not triggered, for logging)"
ConfidenceLocals(w, l) ==
    l @@ [confidence_data |->
              calculate_confidence(w, OrEmpty(l.home_metrics), OrEmpty(l.away_metrics),
                                   l.required_ppm, l.total_points, l.ou_line,
                                   l.bet_type, l.current_ppm,
                                   NoneNum, NoneNum, NoneDict, NoneDict)]

\* "Prepare log data"
LogLocals(timestamp, l) ==
    l @@ [stage |-> "logged",
          log_data |->
              [timestamp |-> timestamp,
               game_id |-> l.game_id,
               home_team |-> l.home_team,
               away_team |-> l.away_team,
               period |-> l.period,
               minutes_remaining |-> l.minutes_remaining,
               seconds_remaining |-> l.seconds_remaining,
               home_score |-> l.home_score,
               away_score |-> l.away_score,
               total_points |-> l.total_points,
               ou_line |-> l.ou_line,
               ou_open |-> l.ou_line,
               required_ppm |-> Round(l.required_ppm, 100),
               current_ppm |-> Round(l.current_ppm, 100),
               ppm_difference |-> Round(l.ppm_difference, 100),
               projected_final_score |-> Round(l.projected_final_score, 10),
               total_time_remaining |-> Round(l.total_time_remaining, 10),
               bet_type |-> IF l.bet_type = NoneStr THEN "" ELSE l.bet_type,
               trigger_flag |-> l.trigger_flag,
               trigger_reasons |-> l.trigger_reasons,
               home_metrics |-> OrEmpty(l.home_metrics),
               away_metrics |-> OrEmpty(l.away_metrics),
               confidence_score |-> Round(l.confidence_data.confidence, 10),
               unit_size |-> l.confidence_data.unit_recommendation]]

\* variant of NoLine: only None counts as no line
NoLineNoneOnly(ou_line) == ou_line = NoneNum

\* "if not ou_line": None and 0 are no line
NoLine(ou_line) == ou_line = NoneNum \/ ou_line = Zero

\* "if not ou_line: return", else the rest of the statements up to log_data,
\* run in program order: each set below holds the locals after one more
\* statement group
AfterLine(mode, w, timestamp, l) ==
    IF NoLine(l.ou_line)
    THEN l @@ [stage |-> "no_line"]
    ELSE CHOOSE f \in
           { LogLocals(timestamp, l7) : l7 \in
           { ConfidenceLocals(w, l6) : l6 \in
           { MetricsLocals(l5) : l5 \in
           { TriggerLocals(l4) : l4 \in
           { ProjectionLocals(l3) : l3 \in
           { CurrentLocals(l2) : l2 \in
           { ElapsedLocals(mode, l1) : l1 \in
           { RequiredLocals(l) } } } } } } } } : TRUE

\* analyze_game up to and including "Prepare log data": its locals.  stage is
\* "no_line" after the early return on a missing line, else "logged".
AnalyzeLocals(mode, w, g, timestamp) ==
    AfterLine(mode, w, timestamp, GameLocals(mode, g))

\* _handle_new_trigger: triggered_games afterwards
_handle_new_trigger(tg, g, log_data, timestamp) ==
    LET game_id == Get(g, "GameID", NoneStr)
    IN  Put(tg, game_id,
            [timestamp |-> timestamp,
             confidence |-> log_data.confidence_score,
             units |-> log_data.unit_size,
             required_ppm |-> log_data.required_ppm,
             bet_type |-> Upper(log_data.bet_type)])

\* _update_game_state: game_states afterwards
_update_game_state(gs, g, log_data) ==
    LET game_id == Get(g, "id", NoneStr)
        s0 == IF game_id \in DOMAIN gs THEN gs[game_id]
              ELSE [max_confidence |-> R(0), max_units |-> R(0),
                    triggered |-> FALSE, trigger_timestamp |-> NoneNum]
        s1 == IF Gt(log_data.confidence_score, s0.max_confidence)
              THEN [s0 EXCEPT !.max_confidence = log_data.confidence_score,
                              !.max_units = log_data.unit_size]
              ELSE s0
        s2 == IF log_data.trigger_flag
              THEN [s1 EXCEPT !.triggered = TRUE,
                              !.trigger_timestamp =
                                  IF s1.trigger_timestamp = NoneNum
                                  THEN log_data.timestamp
                                  ELSE s1.trigger_timestamp]
              ELSE s1
    IN  Put(gs, game_id, s2)

\* final (home, away) scores parsed from game["scores"], a sequence of
\* [name, score] entries
RECURSIVE FinalScores(_, _, _, _)
FinalScores(scores, home_team, away_team, acc) ==
    IF scores = <<>> THEN acc
    ELSE LET sd == Head(scores)
             acc2 == IF sd.name = home_team THEN <<sd.score, acc[2]>>
                     ELSE IF sd.name = away_team THEN <<acc[1], sd.score>>
                     ELSE acc
         IN  FinalScores(Tail(scores), home_team, away_team, acc2)

\* variant of OuResult: a total equal to the line counts as over
OuResultNoPush(final_total, ou_line) ==
    IF Ge(R(final_total), ou_line) THEN "over" ELSE "under"

\* "Determine O/U result" of _handle_game_end
OuResult(final_total, ou_line) ==
    IF Gt(R(final_total), ou_line) THEN "over"
    ELSE IF Lt(R(final_total), ou_line) THEN "under"
    ELSE "push"

\* _handle_game_end: <<triggered_games, results>> afterwards.  A None line
\* cannot be compared with the total: the TypeError is caught by analyze_game
\* and nothing is written.
_handle_game_end(mode, tg, gs, res, g, timestamp) ==
    LET game_id == Get(g, "id", NoneStr)
        final_key == Str(game_id) \o "_final"
        home_team == Get(g, "home_team", NoneStr)
        away_team == Get(g, "away_team", NoneStr)
        final == FinalScores(Get(g, "scores", <<>>), home_team, away_team, <<0, 0>>)
        final_total == final[1] + final[2]
        ou_line == _get_totals_line(g)
        ou_result == OuResult(final_total, ou_line)
        game_state == IF game_id \in DOMAIN gs THEN gs[game_id] ELSE EmptyDict
        our_trigger == Get(game_state, "triggered", FALSE)
        max_units == Get(game_state, "max_units", R(0))
        outcome == IF ~our_trigger THEN ""
                   ELSE IF ou_result = "under" THEN "win"
                   ELSE IF ou_result = "over" THEN "loss"
                   ELSE "push"
        unit_profit == IF ~our_trigger THEN R(0)
                       ELSE IF ou_result = "under" THEN max_units
                       ELSE IF ou_result = "over" THEN Neg(max_units)
                       ELSE R(0)
        went_to_ot == IF mode = "nba" THEN final_total > 240 ELSE final_total > 180
        result_data ==
            [game_id |-> game_id, date |-> timestamp,
             home_team |-> home_team, away_team |-> away_team,
             final_home_score |-> final[1], final_away_score |-> final[2],
             final_total |-> final_total, ou_line |-> ou_line, ou_open |-> ou_line,
             ou_result |-> ou_result, went_to_ot |-> went_to_ot,
             our_trigger |-> our_trigger,
             max_confidence |-> Get(game_state, "max_confidence", R(0)),
             max_units |-> max_units,
             trigger_timestamp |-> Get(game_state, "trigger_timestamp", ""),
             outcome |-> outcome, unit_profit |-> unit_profit,
             notes |-> IF went_to_ot THEN "OT" ELSE ""]
    IN  IF final_key \in DOMAIN tg THEN <<tg, res>>
        ELSE IF ou_line = NoneNum THEN <<tg, res>>
        ELSE <<Put(tg, final_key, TRUE), Append(res, result_data)>>


-----------------------------------------------------------------------------
(* The monitor's run loop: run -> poll_live_games -> analyze_game per game  *)

NoGame == [game_id |-> NoneStr]

\* state after NCAABettingMonitor.__init__ and get_confidence_scorer()
InitMonitor ==
    /\ sport_mode \in {"ncaa", "nba"}
    /\ weights = CONFIDENCE_WEIGHTS
    /\ triggered_games = EmptyDict
    /\ game_states = EmptyDict
    /\ results = <<>>
    /\ last_live_games_time = NoneNum
    /\ now = 0
    /\ pc = "poll"
    /\ queue = <<>>
    /\ game = NoGame
    /\ frame = NoFrame

\* poll_live_games.  espn_games is what fetch_live_games returned; each entry
\* carries in "bookmakers" the bookmakers of the odds game the team matcher
\* pairs it with (<<>> when there is none); odds_ok is FALSE when the odds
\* request raises.
Polled(espn_games, odds_ok) ==
    /\ pc = "poll"
    /\ LET live_games == SelectSeq(espn_games, LAMBDA g : g.is_live)
           games_with_odds == SelectSeq(live_games, LAMBDA g : g.bookmakers # <<>>)
       IN  IF live_games = <<>> \/ ~odds_ok \/ games_with_odds = <<>>
           THEN /\ pc' = "check"
                /\ UNCHANGED <<last_live_games_time, queue>>
           ELSE /\ last_live_games_time' = R(now)
                /\ queue' = games_with_odds
                /\ pc' = "analyze"
    /\ UNCHANGED <<sport_mode, weights, triggered_games, game_states, results,
                   now, game, frame, args, ret, unit_call>>

PollLiveGames(espn_games, odds_ok) == Polled(espn_games, odds_ok) /\ UNCHANGED callVars

\* the statements of analyze_game after log_data: g is the game, f its locals
AfterLog(g, f, tg1, gs1, end) ==
    /\ game' = g
    /\ frame' = f
    /\ triggered_games' = end[1]
    /\ game_states' = gs1
    /\ results' = end[2]

\* "Check if game ended", on the tables the two calls before it left
GameEnd(g, f, tg1, gs1) ==
    AfterLog(g, f, tg1, gs1,
             IF Get(g, "completed", FALSE)
             THEN _handle_game_end(sport_mode, tg1, gs1, results, g, R(now))
             ELSE <<tg1, results>>)

\* "if trigger_flag and game_id not in self.triggered_games"
NewTrigger(f, tg) == f.trigger_flag /\ f.game_id \notin DOMAIN tg

\* "Check if this is a new trigger" and "Update game state tracking"
Analyzed(g, f) ==
    IF f.stage = "no_line"
    THEN /\ game' = g
         /\ frame' = f
         /\ UNCHANGED <<triggered_games, game_states, results>>
    ELSE GameEnd(g, f,
                 IF NewTrigger(f, triggered_games)
                 THEN _handle_new_trigger(triggered_games, g, f.log_data, R(now))
                 ELSE triggered_games,
                 _update_game_state(game_states, g, f.log_data))

\* analyze_game on the next game of the poll
AnalyzeNext ==
    /\ pc = "analyze"
    /\ queue # <<>>
    /\ \E f \in {AnalyzeLocals(sport_mode, weights, Head(queue), R(now))} :
           Analyzed(Head(queue), f)
    /\ queue' = Tail(queue)
    /\ pc' = IF Tail(queue) = <<>> THEN "check" ELSE "analyze"
    /\ UNCHANGED <<sport_mode, weights, last_live_games_time, now, args, ret,
                   unit_call>>

AnalyzeGame == AnalyzeNext /\ UNCHANGED callVars

\* run: the kill-switch check after poll_live_games, then asyncio.sleep
RunLoopCheck ==
    /\ pc = "check"
    /\ IF /\ last_live_games_time # NoneNum
          /\ Gt(Sub(R(now), last_live_games_time), R(no_games_timeout))
       THEN /\ pc' = "stopped"
            /\ UNCHANGED <<now, game, frame>>
       ELSE /\ pc' = "poll"
            /\ now' = now + POLL_INTERVAL
            /\ game' = NoGame
            /\ frame' = NoFrame
    /\ UNCHANGED <<sport_mode, weights, triggered_games, game_states, results,
                   last_live_games_time, queue, args, ret,
                   unit_call, callVars>>


-----------------------------------------------------------------------------
(* Direct use of the scorer: calculate_confidence and update_weights *)

NoArgs == [called |-> FALSE]
NoRet == [called |-> FALSE]
\* no call in progress: the event loop is between two synchronous calls
Idle == [stage |-> "idle"]
\* nothing has been called, retuned or changed yet
InitCalls ==
    /\ prev = NoRet
    /\ applied = <<>>
    /\ scoring = Idle
    /\ tracked = EmptyDict
    /\ ended = <<>>
    /\ backfilled = NoRet
    /\ feed = <<>>
    /\ polled = <<>>
    /\ report = NoRet
    /\ all_live = TRUE

\* the bet_type arguments: a side, or None as analyze_game passes when no
\* trigger has set one
BetTypes == {"under", "over", NoneStr}

\* variant of update_weights: the keys not sent fall back to the configured
\* values
update_weightsReset(w, new_weights) == new_weights @@ CONFIDENCE_WEIGHTS

\* ConfidenceScorer.update_weights: self.weights.update(new_weights)
update_weights(w, new_weights) == new_weights @@ w

UpdateWeights(new_weights) ==
    /\ args # NoArgs
    /\ weights' = update_weights(weights, new_weights)
    /\ UNCHANGED <<monitorVars, args, ret, unit_call, callVars>>

\* one call of calculate_confidence on the arguments held in args, for bet_type
CalculateConfidence(bet_type) ==
    /\ args # NoArgs
    /\ ret[bet_type] = NoRet
    /\ ret' = [ret EXCEPT ![bet_type] =
                  [called |-> TRUE,
                   weights |-> weights,
                   value |-> calculate_confidence(
                       weights, args.home_metrics, args.away_metrics,
                       args.required_ppm, args.current_total, args.ou_line,
                       bet_type, args.current_ppm, args.home_fouls, args.away_fouls,
                       args.home_live_stats, args.away_live_stats)]]
    /\ UNCHANGED <<monitorVars, weights, args, unit_call, callVars>>

\* one call of _get_unit_recommendation
GetUnitRecommendation(confidence) ==
    /\ unit_call' = [called |-> TRUE, confidence |-> confidence,
                     value |-> _get_unit_recommendation(confidence)]
    /\ UNCHANGED <<monitorVars, weights, args, ret, callVars>>

-----------------------------------------------------------------------------
(* Bounded inputs *)

\* the highest period number the scoreboard reports (regulation plus overtimes)
MaxPeriod == 6

ClockMinutes == {0, 3, 5, 12, 20}
ClockSeconds == {0, 30}
HomeScores == {0, 58, 70}
AwayScores == {0, 54, 60}
Matchups == {<<"SlowU", "FastTech">>, <<"FastTech", "Unknown">>}
Bookmakers ==
    {<<>>, <<NoneNum>>, <<R(0)>>, <<R(60)>>, <<R(120)>>, <<R(145)>>,
     <<Rat(291, 2)>>, <<NoneNum, R(145)>>}

\* length in minutes of a period: halves of 20 (NCAA), quarters of 12 (NBA),
\* overtimes of 5; nothing is on the clock before the tip-off
PeriodLength(mode, period) ==
    IF period = 0 THEN 0
    ELSE IF mode = "nba" THEN (IF period >= 5 THEN 5 ELSE 12)
    ELSE (IF period >= 3 THEN 5 ELSE 20)

\* the scoreboard never shows more on the clock than the period is long
ClockOk(mode, period, minutes, seconds) ==
    60 * minutes + seconds <= 60 * PeriodLength(mode, period)

\* the clocks the scoreboard can show in a period
Clocks(mode, period) ==
    {c \in ClockMinutes \X ClockSeconds : ClockOk(mode, period, c[1], c[2])}

\* the scoreboard event of the one game of the first poll, paired with the
\* bookmakers the odds feed has for it
Snapshot(m, hs, as, st, p, c, b) ==
    _parse_game("g1", m[1], m[2], hs, as, st, p, c[1], c[2]) @@ [bookmakers |-> b]

Statuses == {"pre", "in", "post"}

SlowProfile == TeamStats.SlowU @@ [efg_pct |-> R(50)]
FastProfile == TeamStats.FastTech @@ [efg_pct |-> R(52)]
MetricsChoices == {NoneDict, EmptyDict, SlowProfile, FastProfile, [pace |-> R(72)]}

HotLive ==
    [fg_pct |-> R(58), ft_attempted |-> R(4), turnovers |-> R(2),
     fg_attempted |-> R(30), rebounds_offensive |-> R(8), rebounds_total |-> R(20)]
ColdLive ==
    [fg_pct |-> R(38), ft_attempted |-> R(22), turnovers |-> R(9),
     fg_attempted |-> R(30), rebounds_offensive |-> R(2), rebounds_total |-> R(18)]
LiveChoices == {<<NoneDict, NoneDict>>, <<HotLive, NoneDict>>, <<ColdLive, ColdLive>>}

FoulChoices == {<<NoneNum, NoneNum>>, <<R(3), R(4)>>, <<R(8), R(8)>>, <<R(11), R(10)>>}
RequiredPpmChoices == {Rat(2, 5), Rat(5, 4), R(3), Rat(19, 4), Rat(29, 5), Rat(33, 5)}
CurrentPpmChoices == {R(0), Rat(56, 15)}

ScorerArgs ==
    { [called |-> TRUE, home_metrics |-> hm, away_metrics |-> am,
       required_ppm |-> rp, current_total |-> 112, ou_line |-> R(145),
       current_ppm |-> cp, home_fouls |-> fo[1], away_fouls |-> fo[2],
       home_live_stats |-> li[1], away_live_stats |-> li[2]] :
        hm \in MetricsChoices, am \in MetricsChoices, rp \in RequiredPpmChoices,
        cp \in CurrentPpmChoices, fo \in FoulChoices, li \in LiveChoices }

\* what an operator may send to update_weights
WeightUpdates ==
    {[slow_pace_bonus |-> R(60), fast_pace_penalty |-> Rat(-13, 2)]}

-----------------------------------------------------------------------------
(* Specifications *)

\* The monitor's first poll, over a wide range of snapshots.  The reading of
\* a poll depends on the snapshot, the mode and the weights only.
InitPace ==
    /\ InitMonitor
    /\ args = NoArgs
    /\ ret = [b \in BetTypes |-> NoRet]
    /\ unit_call = NoRet
    /\ InitCalls

\* poll_live_games on a one-game scoreboard, the first time round the loop
FirstPoll ==
    /\ now = 0
    /\ pc = "poll"
    /\ \E m \in Matchups, hs \in HomeScores, as \in AwayScores, st \in Statuses,
          b \in Bookmakers, p \in 0..MaxPeriod, odds_ok \in BOOLEAN :
          \E c \in Clocks(sport_mode, p) :
              PollLiveGames(<<Snapshot(m, hs, as, st, p, c, b)>>, odds_ok)

NextPace ==
    \/ FirstPoll
    \/ AnalyzeGame
    \/ RunLoopCheck

SpecPace == InitPace /\ [][NextPace]_vars

\* The scorer called directly, on arguments drawn at the start, once per
\* bet type, with weight updates at any time.
InitScorer ==
    /\ InitMonitor
    /\ sport_mode = "ncaa"
    /\ args \in ScorerArgs
    /\ ret = [b \in BetTypes |-> NoRet]
    /\ unit_call = NoRet
    /\ InitCalls

NextScorer ==
    \/ \E b \in BetTypes : CalculateConfidence(b)
    \/ \E u \in WeightUpdates : UpdateWeights(u)

SpecScorer == InitScorer /\ [][NextScorer]_vars

\* The unit bands applied directly to a confidence, in steps of one half from
\* below 0 to above 100.
Confidences == {Rat(i, 2) : i \in -4..204}

InitUnits == InitPace

NextUnits == \E confidence \in Confidences : GetUnitRecommendation(confidence)

SpecUnits == InitUnits /\ [][NextUnits]_vars

-----------------------------------------------------------------------------
(* The scorer statement by statement, with retuning between calls.        *)
(* calculate_confidence is a plain (synchronous) method, called from the   *)
(* coroutine analyze_game; update_weights is called from the coroutine     *)
(* admin_update_weights.  Coroutines of one event loop change over at an   *)
(* await only, and calculate_confidence contains none.                     *)

\* variant of EventLoopFree: a coroutine may run in the middle of a call
EventLoopShared == TRUE

\* another coroutine can run: no synchronous call is in progress
EventLoopFree == scoring = Idle

\* the highest number of update_weights calls in one behaviour
MaxUpdates == 2

\* what an operator sends to update_weights while the scorer is in use
TuningUpdates ==
    {[fast_pace_penalty |-> R(-8)],
     [fast_pace_threshold |-> R(71), medium_pace_bonus |-> R(2)]}

\* the sides a trigger passes to the scorer
Sides == {"under", "over"}

TuningMetrics == {SlowProfile, FastProfile, [pace |-> R(72)], [pace_per_game |-> R(70)]}
TuningArgs ==
    { [called |-> TRUE, home_metrics |-> hm, away_metrics |-> am,
       required_ppm |-> Rat(19, 4), current_total |-> 112, ou_line |-> R(145),
       current_ppm |-> Rat(56, 15), home_fouls |-> NoneNum, away_fouls |-> NoneNum,
       home_live_stats |-> li[1], away_live_stats |-> li[2]] :
        hm \in TuningMetrics, am \in TuningMetrics \cup {EmptyDict},
        li \in {<<NoneDict, NoneDict>>, <<HotLive, NoneDict>>} }

\* the paces a team's metrics are raised to
RaisedPaces == {R(73), R(80)}

\* the metrics m with the pace _evaluate_pace reads replaced
SetPace(m, pace) ==
    IF "pace_per_game" \in DOMAIN m THEN [m EXCEPT !.pace_per_game = pace]
    ELSE [pace |-> pace] @@ m

\* the same call with one team's pace raised from at or below the fast-pace
\* threshold to above it; what was returned before is kept in prev
RaisePace(team, pace) ==
    /\ EventLoopFree
    /\ args # NoArgs
    /\ prev = NoRet
    /\ \E b \in Sides : ret[b] # NoRet
    /\ Truthy(args[team])
    /\ Le(TeamPace(args[team]), weights.fast_pace_threshold)
    /\ Gt(pace, weights.fast_pace_threshold)
    /\ prev' = [called |-> TRUE, team |-> team, args |-> args, ret |-> ret]
    /\ args' = [args EXCEPT ![team] = SetPace(args[team], pace)]
    /\ ret' = [b \in BetTypes |-> NoRet]
    /\ UNCHANGED <<monitorVars, weights, unit_call, applied, scoring,
                   tracked, ended, backfilled,
                   feed, polled, report, all_live>>

\* admin_update_weights: scorer.update_weights(update.weights)
Retune(new_weights) ==
    /\ EventLoopFree
    /\ Len(applied) < MaxUpdates
    /\ weights' = update_weights(weights, new_weights)
    /\ applied' = Append(applied, new_weights)
    /\ UNCHANGED <<monitorVars, args, ret, unit_call, prev, scoring,
                   tracked, ended, backfilled,
                   feed, polled, report, all_live>>

\* calculate_confidence up to the metrics check: the early return, or the
\* locals of a call that goes on
StartScoring(bet_type) ==
    /\ scoring = Idle
    /\ args # NoArgs
    /\ ret[bet_type] = NoRet
    /\ IF ~Truthy(args.home_metrics) \/ ~Truthy(args.away_metrics)
       THEN /\ ret' = [ret EXCEPT ![bet_type] =
                          [called |-> TRUE, applied |-> applied, read |-> EmptyDict,
                           added |-> EmptyDict,
                           value |-> [confidence |-> R(0), unit_recommendation |-> R(0),
                                      breakdown |-> [error |-> "Missing team data"]]]]
            /\ UNCHANGED scoring
       ELSE /\ scoring' = [stage |-> "pace", bet_type |-> bet_type, applied |-> applied,
                           score |-> R(50), season |-> EmptyDict,
                           read |-> EmptyDict, added |-> EmptyDict]
            /\ UNCHANGED ret
    /\ UNCHANGED <<monitorVars, weights, args, unit_call, prev, applied,
                   tracked, ended, backfilled,
                   feed, polled, report, all_live>>

\* score += factor_score * multiplier; breakdown[...] = details, for the
\* factors fs, all read under the weights table w at the stage named stage
AddFactors(s, stage, next, w, fs) ==
    [s EXCEPT !.stage = next,
              !.score = Add(s.score, SumFactors(fs, DOMAIN fs, Multiplier(s.bet_type))),
              !.season = fs @@ s.season,
              !.read = (stage :> w) @@ s.read,
              !.added = (stage :> SumFactors(fs, DOMAIN fs, Multiplier(s.bet_type)))
                        @@ s.added]

\* === PACE ANALYSIS ===
ScorePace ==
    /\ scoring.stage = "pace"
    /\ scoring' = AddFactors(scoring, "pace", "season", weights,
                      [pace |-> _evaluate_pace(weights, args.home_metrics,
                                               args.away_metrics)])
    /\ UNCHANGED <<monitorVars, weights, args, ret, unit_call, prev, applied,
                   tracked, ended, backfilled,
                   feed, polled, report, all_live>>

\* === 3-POINT ANALYSIS === to === FOUL ANALYSIS ===
ScoreSeason ==
    /\ scoring.stage = "season"
    /\ scoring' = AddFactors(scoring, "season", "matchup", weights,
           [three_point |-> _evaluate_three_point(weights, args.home_metrics,
                                                  args.away_metrics),
            free_throw |-> _evaluate_free_throws(weights, args.home_metrics,
                                                 args.away_metrics),
            turnover |-> _evaluate_turnovers(weights, args.home_metrics,
                                             args.away_metrics),
            defense |-> _evaluate_defense(weights, args.home_metrics,
                                          args.away_metrics),
            fouls |-> _evaluate_fouls(args.home_fouls, args.away_fouls)])
    /\ UNCHANGED <<monitorVars, weights, args, ret, unit_call, prev, applied,
                   tracked, ended, backfilled,
                   feed, polled, report, all_live>>

\* === MATCHUP BONUSES ===
ScoreMatchup ==
    /\ scoring.stage = "matchup"
    /\ scoring' = AddFactors(scoring, "matchup", "finish", weights,
                      [matchup |-> _evaluate_matchup(weights, args.home_metrics,
                                                     args.away_metrics)])
    /\ UNCHANGED <<monitorVars, weights, args, ret, unit_call, prev, applied,
                   tracked, ended, backfilled,
                   feed, polled, report, all_live>>

\* the returned value of a call whose season factors are in s: the PPM term,
\* the live factors, the cap and the return statement
FinishedValue(s, ppm_score, live) ==
    CapScore(s.bet_type, s.season, ppm_score, live,
             Add(Add(s.score, ppm_score),
                 SumFactors(live, DOMAIN live, Multiplier(s.bet_type))))

\* === PPM ANALYSIS === to the return statement
FinishScoring ==
    /\ scoring.stage = "finish"
    /\ ret' = [ret EXCEPT ![scoring.bet_type] =
                  [called |-> TRUE, applied |-> scoring.applied,
                   read |-> scoring.read, added |-> scoring.added,
                   value |-> FinishedValue(scoring,
                       PpmScore(args.required_ppm, scoring.bet_type, args.current_ppm),
                       LiveFactors(args.home_metrics, args.away_metrics,
                                   args.home_live_stats, args.away_live_stats))]]
    /\ scoring' = Idle
    /\ UNCHANGED <<monitorVars, weights, args, unit_call, prev, applied,
                   tracked, ended, backfilled,
                   feed, polled, report, all_live>>

InitTuning ==
    /\ InitMonitor
    /\ sport_mode = "ncaa"
    /\ args \in TuningArgs
    /\ ret = [b \in BetTypes |-> NoRet]
    /\ unit_call = NoRet
    /\ InitCalls

NextTuning ==
    \/ \E b \in Sides : StartScoring(b)
    \/ ScorePace
    \/ ScoreSeason
    \/ ScoreMatchup
    \/ FinishScoring
    \/ \E u \in TuningUpdates : Retune(u)
    \/ \E team \in {"home_metrics", "away_metrics"}, pace \in RaisedPaces :
           RaisePace(team, pace)

SpecTuning == InitTuning /\ [][NextTuning]_vars

-----------------------------------------------------------------------------
(* backfill_results.py: calculate_outcome *)

\* str.lower() on a logged bet type
Lower(str) ==
    IF str = "UNDER" THEN "under" ELSE IF str = "OVER" THEN "over" ELSE str

\* "Determine O/U result" of calculate_outcome
BackfillOuResult(final_total, ou_line) ==
    IF Gt(R(final_total), ou_line) THEN "over"
    ELSE IF Lt(R(final_total), ou_line) THEN "under"
    ELSE "push"

\* variant of BackfillOutcome: a loss costs nothing
BackfillOutcomeFree(row, ou_result) ==
    IF ~row.triggered THEN <<"", R(0)>>
    ELSE IF Lower(row.bet_type) = ou_result THEN <<"win", row.max_units>>
    ELSE IF ou_result = "push" THEN <<"push", R(0)>>
    ELSE <<"loss", R(0)>>

\* "Determine our outcome" of calculate_outcome: <<outcome, unit_profit>>
BackfillOutcome(row, ou_result) ==
    IF ~row.triggered THEN <<"", R(0)>>
    ELSE IF Lower(row.bet_type) = ou_result THEN <<"win", row.max_units>>
    ELSE IF ou_result = "push" THEN <<"push", R(0)>>
    ELSE <<"loss", Neg(row.max_units)>>

\* the dict calculate_outcome returns, ours being <<outcome, unit_profit>>
BackfillResult(row, final_data, final_total, ou_result, ours) ==
    [game_id |-> row.game_id,
     home_team |-> IF final_data.home_name # "" THEN final_data.home_name
                   ELSE row.home_team,
     away_team |-> IF final_data.away_name # "" THEN final_data.away_name
                   ELSE row.away_team,
     final_home_score |-> final_data.home_score,
     final_away_score |-> final_data.away_score,
     final_total |-> final_total, ou_line |-> row.ou_line, ou_open |-> row.ou_line,
     ou_result |-> ou_result, went_to_ot |-> final_total > 180,
     our_trigger |-> row.triggered, max_confidence |-> row.max_confidence,
     max_units |-> row.max_units, trigger_timestamp |-> row.trigger_timestamp,
     outcome |-> ours[1], unit_profit |-> ours[2]]

\* calculate_outcome from "Determine our outcome" on
BackfillResolved(row, final_data, final_total, ou_result) ==
    BackfillResult(row, final_data, final_total, ou_result,
                   BackfillOutcome(row, ou_result))

\* calculate_outcome(game, final_data): None when there is no final data or
\* the line is None or 0, else the result dict
calculate_outcome(row, final_data) ==
    IF ~Truthy(final_data) \/ row.ou_line = NoneNum \/ row.ou_line = Zero
    THEN NoneDict
    ELSE BackfillResolved(row, final_data,
             final_data.home_score + final_data.away_score,
             BackfillOuResult(final_data.home_score + final_data.away_score,
                              row.ou_line))

-----------------------------------------------------------------------------
(* Direct use of the resolvers.  poll_live_games hands analyze_game live    *)
(* games only, and a live game is never completed, so the run loop never   *)
(* reaches _handle_game_end.  Here analyze_game is given finished games:   *)
(* the scoreboard's own, and ones that carry the "id" and "scores" keys    *)
(* _handle_game_end reads.  Of analyze_game the statements that decide     *)
(* about the result are kept: the line check and the call at its end.      *)

\* the highest number of _handle_game_end calls in one behaviour
MaxEnded == 3

GameIds == {"g1", "g2"}
Teams == [g1 |-> <<"SlowU", "FastTech">>, g2 |-> <<"FastTech", "Unknown">>]

\* what a behaviour fixes at its start: whether the games carry "id" and
\* "scores", the bookmakers of both games and their final scores
ResolveArgs ==
    { [called |-> TRUE, shape |-> sh, bookmakers |-> b, final |-> f] :
        sh \in {"espn", "scores"},
        b \in {<<>>, <<R(0)>>, <<R(145)>>},
        f \in {<<80, 70>>, <<75, 70>>, <<70, 70>>} }

\* the keys of the shape "scores", for a game at home_score-away_score
ScoreKeys(id, home_score, away_score) ==
    [id |-> id,
     scores |-> <<[name |-> Teams[id][1], score |-> home_score],
                  [name |-> Teams[id][2], score |-> away_score]>>]

\* the game id while it is live, as analyze_game receives it
LiveGame(a, id) ==
    (IF a.shape = "scores" THEN ScoreKeys(id, 40, 35) ELSE EmptyDict)
    @@ _parse_game(id, Teams[id][1], Teams[id][2], 40, 35, "in", 2, 5, 0)
    @@ [bookmakers |-> a.bookmakers]

\* the game id once it is final
EndedGame(a, id) ==
    (IF a.shape = "scores" THEN ScoreKeys(id, a.final[1], a.final[2]) ELSE EmptyDict)
    @@ _parse_game(id, Teams[id][1], Teams[id][2], a.final[1], a.final[2],
                   "post", 2, 0, 0)
    @@ [bookmakers |-> a.bookmakers]

\* the log_data of a poll, as far as the tracking reads it
LogChoices ==
    { [trigger_flag |-> FALSE, bet_type |-> "", confidence_score |-> R(55),
       unit_size |-> Rat(1, 2), required_ppm |-> R(3)],
      [trigger_flag |-> TRUE, bet_type |-> "under", confidence_score |-> R(70),
       unit_size |-> R(1), required_ppm |-> R(4)],
      [trigger_flag |-> TRUE, bet_type |-> "over", confidence_score |-> R(80),
       unit_size |-> R(2), required_ppm |-> R(2)] }

\* analyze_game from "Check if this is a new trigger" to "Update game state
\* tracking", for the one tracked poll of game id, which comes before the
\* game is seen finished
TrackPoll(id, log_data) ==
    /\ args # NoArgs
    /\ id \notin DOMAIN tracked
    /\ \A i \in DOMAIN ended : ended[i].game # id
    /\ triggered_games' =
           IF log_data.trigger_flag /\ id \notin DOMAIN triggered_games
           THEN _handle_new_trigger(triggered_games, LiveGame(args, id),
                                    log_data, R(now))
           ELSE triggered_games
    /\ game_states' = _update_game_state(game_states, LiveGame(args, id),
                                         log_data @@ [timestamp |-> R(now)])
    /\ tracked' = Put(tracked, id, log_data)
    /\ UNCHANGED <<sport_mode, results, last_live_games_time, now, pc, queue, game,
                   frame, weights, args, ret, unit_call, prev, applied, scoring,
                   ended, backfilled,
                   feed, polled, report, all_live>>

\* _handle_game_end compares the total with a None line: TypeError
GameEndRaises(tg, g) ==
    /\ (Str(Get(g, "id", NoneStr)) \o "_final") \notin DOMAIN tg
    /\ _get_totals_line(g) = NoneNum

\* what analyze_game did with the finished game g: whether it got as far as
\* _handle_game_end, whether that raised, and whether a result was written
EndedCall(id, g, reached, raised, end) ==
    [game |-> id, home_team |-> g.home_team, ou_line |-> _get_totals_line(g),
     final_total |-> g.home_score + g.away_score, reached |-> reached,
     raised |-> raised, wrote |-> Len(end[2]) > Len(results)]

\* analyze_game on the finished game id: "if not ou_line: return", and at the
\* end "Check if game ended": await self._handle_game_end(game)
HandleGameEnd(id) ==
    /\ args # NoArgs
    /\ Len(ended) < MaxEnded
    /\ \E end \in {IF NoLine(_get_totals_line(EndedGame(args, id)))
                   THEN <<triggered_games, results>>
                   ELSE _handle_game_end(sport_mode, triggered_games, game_states,
                                         results, EndedGame(args, id), R(now))} :
           /\ triggered_games' = end[1]
           /\ results' = end[2]
           /\ ended' = Append(ended,
                  EndedCall(id, EndedGame(args, id),
                      ~NoLine(_get_totals_line(EndedGame(args, id))),
                      /\ ~NoLine(_get_totals_line(EndedGame(args, id)))
                      /\ GameEndRaises(triggered_games, EndedGame(args, id)),
                      end))
    /\ UNCHANGED <<sport_mode, game_states, last_live_games_time, now, pc, queue,
                   game, frame, weights, args, ret, unit_call, prev, applied,
                   scoring, tracked, backfilled,
                   feed, polled, report, all_live>>

\* the game dict get_unique_games builds from the poll log of game id
BackfillRow(a, id, log_data) ==
    [game_id |-> id, home_team |-> Teams[id][1], away_team |-> Teams[id][2],
     ou_line |-> FirstPoint(a.bookmakers),
     triggered |-> log_data.trigger_flag,
     max_confidence |-> log_data.confidence_score,
     max_units |-> log_data.unit_size,
     bet_type |-> Upper(log_data.bet_type),
     trigger_timestamp |-> R(now)]

\* what fetch_final_score returns for game id: None when the request failed
FinalData(a, id, fetched) ==
    IF ~fetched THEN NoneDict
    ELSE [home_score |-> a.final[1], away_score |-> a.final[2],
          home_name |-> Teams[id][1], away_name |-> Teams[id][2],
          completed |-> TRUE]

\* calculate_outcome on the log of game id and the fetched final score
CalculateOutcome(id, fetched) ==
    /\ args # NoArgs
    /\ id \in DOMAIN tracked
    /\ backfilled' =
           [called |-> TRUE, game |-> id, fetched |-> fetched,
            row |-> BackfillRow(args, id, tracked[id]),
            final_total |-> args.final[1] + args.final[2],
            value |-> calculate_outcome(BackfillRow(args, id, tracked[id]),
                                        FinalData(args, id, fetched))]
    /\ UNCHANGED <<monitorVars, weights, args, ret, unit_call, prev, applied,
                   scoring, tracked, ended,
                   feed, polled, report, all_live>>

InitResolve ==
    /\ InitMonitor
    /\ args \in ResolveArgs
    /\ ret = [b \in BetTypes |-> NoRet]
    /\ unit_call = NoRet
    /\ InitCalls

NextResolve ==
    \/ \E id \in GameIds, log_data \in LogChoices : TrackPoll(id, log_data)
    \/ \E id \in GameIds : HandleGameEnd(id)
    \/ \E id \in GameIds, fetched \in BOOLEAN : CalculateOutcome(id, fetched)

SpecResolve == InitResolve /\ [][NextResolve]_vars

-----------------------------------------------------------------------------
(* The run loop over several polls of a two-game scoreboard.  Each game    *)
(* moves through the stages of GameStages in order, staying or advancing   *)
(* between polls; the odds feed lists both games with the line of the      *)
(* stage, or its request fails.                                             *)

\* the polls the run loop makes
MaxPolls == 3

\* the scoreboard event and posted line of a game at each stage: before the
\* tip-off, three times during play, and finished
GameStages ==
    [g1 |-> << <<0, 0, "pre", 0, 0, R(145)>>,
               <<20, 18, "in", 1, 5, R(145)>>,
               <<58, 54, "in", 2, 5, R(145)>>,
               <<70, 60, "in", 2, 3, R(145)>>,
               <<75, 66, "post", 2, 0, R(145)>> >>,
     g2 |-> << <<0, 0, "pre", 0, 0, R(145)>>,
               <<30, 30, "in", 1, 5, R(145)>>,
               <<46, 44, "in", 2, 10, R(120)>>,
               <<58, 54, "in", 2, 5, R(120)>>,
               <<66, 60, "post", 2, 0, R(120)>> >>]

LastStage == Len(GameStages.g1)

\* home and away team of the two games
FeedTeams == [g1 |-> <<"SlowU", "FastTech">>, g2 |-> <<"FastTech", "SlowU">>]

\* fetch_live_games plus the odds matching: the game dict of game id at
\* stage s, with the bookmakers the team matcher pairs it with
StageGame(id, s) ==
    _parse_game(id, FeedTeams[id][1], FeedTeams[id][2], GameStages[id][s][1], GameStages[id][s][2], GameStages[id][s][3], GameStages[id][s][4], GameStages[id][s][5], 0) @@ [bookmakers |-> <<GameStages[id][s][6]>>]

\* the scoreboard when the games are at stages s1 and s2
Scoreboard(s1, s2) == <<StageGame("g1", s1), StageGame("g2", s2)>>

\* the stages the games were at in the last poll (both before the tip-off
\* when there was none)
StagesNow == IF feed = <<>> THEN <<1, 1>> ELSE feed[Len(feed)].stages

\* one pass of the run loop starts: poll_live_games up to the analysis of
\* the games
FeedPoll(s1, s2, odds_ok) ==
    /\ Len(feed) < MaxPolls
    /\ s1 >= StagesNow[1]
    /\ s2 >= StagesNow[2]
    /\ Polled(Scoreboard(s1, s2), odds_ok)
    /\ feed' = Append(feed, [stages |-> <<s1, s2>>, odds_ok |-> odds_ok, at |-> now])
    /\ UNCHANGED <<prev, applied, scoring, tracked, ended, backfilled, polled, report, all_live>>

\* what an analyze_game call that reached log_data did: the poll's reading,
\* whether _handle_new_trigger ran, and the key _update_game_state used
PolledCall(g, f, tg) ==
    [game_id |-> f.game_id, at |-> Len(feed),
     confidence_score |-> f.log_data.confidence_score,
     unit_size |-> f.log_data.unit_size,
     trigger_flag |-> f.trigger_flag,
     bet_type |-> f.log_data.bet_type,
     new_trigger |-> NewTrigger(f, tg),
     trigger_key |-> Get(g, "GameID", NoneStr),
     state_key |-> Get(g, "id", NoneStr)]

\* analyze_game on the next game of the poll
FeedAnalyze ==
    /\ AnalyzeNext
    /\ polled' = IF frame'.stage = "logged"
                 THEN Append(polled, PolledCall(game', frame', triggered_games))
                 ELSE polled
    /\ UNCHANGED <<prev, applied, scoring, tracked, ended, backfilled, feed, report, all_live>>

\* the kill-switch check and the sleep that end the pass
FeedCheck == RunLoopCheck

InitFeed ==
    /\ InitMonitor
    /\ sport_mode = "ncaa"
    /\ args = NoArgs
    /\ ret = [b \in BetTypes |-> NoRet]
    /\ unit_call = NoRet
    /\ InitCalls

\* poll_live_games on whatever the feeds return next
FeedPolls == \E s1 \in 1..LastStage, s2 \in 1..LastStage, odds_ok \in BOOLEAN : FeedPoll(s1, s2, odds_ok)

NextFeed ==
    \/ FeedPolls
    \/ FeedAnalyze
    \/ FeedCheck

SpecFeed == InitFeed /\ [][NextFeed]_vars

\* "for game in games_with_odds": the loop takes the next game (a FeedAnalyze
\* step, which is possible whenever a game is left)
NextInQueue == pc = "analyze" /\ queue # <<>> /\ queue' = Tail(queue)

\* the run loop keeps going: every poll_live_games call, every analyze_game
\* call of its loop and the check after them are reached and return
SpecFeedFair == SpecFeed /\ WF_vars(FeedPolls) /\ WF_queue(NextInQueue) /\ WF_vars(FeedCheck)

-----------------------------------------------------------------------------
(* The run loop over many polls of one game at half-time, for the kill     *)
(* switch.  A poll finds no live game, a live game with odds, a live game  *)
(* the odds feed does not list, or a live game while the odds request      *)
(* fails.                                                                  *)

\* the polls the run loop makes
MaxKillPolls == 24

\* the scoreboard's one game: at half-time when live, else before the tip-off
HalfTime(live, bookmakers) ==
    IF live
    THEN Snapshot(<<"SlowU", "FastTech">>, 30, 30, "in", 1, <<0, 0>>, bookmakers)
    ELSE Snapshot(<<"SlowU", "FastTech">>, 0, 0, "pre", 0, <<0, 0>>, bookmakers)

\* one pass of the run loop starts: poll_live_games up to the analysis
KillPoll(live, listed, odds_ok) ==
    /\ now < MaxKillPolls * POLL_INTERVAL
    /\ Polled(<<HalfTime(live, IF listed THEN <<R(145)>> ELSE <<>>)>>, odds_ok)
    /\ all_live' = (all_live /\ live)
    /\ UNCHANGED <<prev, applied, scoring, tracked, ended, backfilled, feed, polled, report>>

InitKill ==
    /\ InitMonitor
    /\ args = NoArgs
    /\ ret = [b \in BetTypes |-> NoRet]
    /\ unit_call = NoRet
    /\ InitCalls

NextKill ==
    \/ \E live \in BOOLEAN, listed \in BOOLEAN, odds_ok \in BOOLEAN : KillPoll(live, listed, odds_ok)
    \/ AnalyzeGame
    \/ RunLoopCheck

SpecKill == InitKill /\ [][NextKill]_vars

-----------------------------------------------------------------------------
(* utils/ppm_analyzer.py: PPMAnalyzer.  A log is one poll record with the   *)
(* keys _analyze_bucket reads (game_id, bet_type, required_ppm,             *)
(* confidence_score, unit_size); a result is one row of the results log    *)
(* (game_id, outcome, unit_profit).                                         *)

\* "Filter to thresholds with sufficient sample size": data['triggers'] >= 10
MinSampleSize == 10

\* self.ppm_buckets: 0.5 to 10.0 in steps of 0.1, in this order
ppm_buckets == [i \in 1..96 |-> Rat(i + 4, 10)]

\* variant of ThresholdHit: the strict comparisons of analyze_game
ThresholdHitStrict(log, results_by_game, ppm_threshold) ==
    /\ \/ Lower(log.bet_type) = "under" /\ Gt(log.required_ppm, ppm_threshold)
       \/ Lower(log.bet_type) = "over" /\ Lt(log.required_ppm, ppm_threshold)
    /\ log.game_id \in DOMAIN results_by_game

\* "Check if this would trigger at this threshold" and
\* "if triggered and game_id in results_by_game"
ThresholdHit(log, results_by_game, ppm_threshold) ==
    /\ \/ Lower(log.bet_type) = "under" /\ Ge(log.required_ppm, ppm_threshold)
       \/ Lower(log.bet_type) = "over" /\ Le(log.required_ppm, ppm_threshold)
    /\ log.game_id \in DOMAIN results_by_game

\* sum(...) over a sequence of numbers
RECURSIVE SumSeq(_)
SumSeq(xs) == IF xs = <<>> THEN R(0) ELSE Add(Head(xs), SumSeq(Tail(xs)))

\* sum(1 for h in threshold_hits if h['result'].get('outcome') == outcome)
CountOutcome(outcomes, outcome) == Cardinality({i \in DOMAIN outcomes : outcomes[i] = outcome})

\* (wins / (wins + losses) * 100) if (wins + losses) > 0 else 0
WinRate(wins, losses) ==
    IF wins + losses > 0 THEN Mul(Rat(wins, wins + losses), R(100)) ELSE R(0)

\* (total_profit / total_units * 100) if total_units > 0 else 0
Roi(total_profit, total_units) ==
    IF Gt(total_units, R(0)) THEN Mul(Div(total_profit, total_units), R(100)) ELSE R(0)

\* "Calculate metrics": the dict returned for a bucket with hits
BucketMetrics(triggers, wins, losses, pushes, total_confidence, total_units, total_profit) ==
    [triggers |-> triggers, wins |-> wins, losses |-> losses, pushes |-> pushes,
     win_rate |-> Round(WinRate(wins, losses), 100),
     avg_confidence |-> Round(Div(total_confidence, R(triggers)), 10),
     avg_units |-> Round(Div(total_units, R(triggers)), 100),
     total_units_wagered |-> Round(total_units, 100),
     total_profit |-> Round(total_profit, 100),
     roi |-> Round(Roi(total_profit, total_units), 100)]

\* the bucket of the logs in threshold_hits, each with the result of its game
BucketOf(threshold_hits, results_by_game) ==
    IF threshold_hits = <<>>
    THEN [triggers |-> 0, win_rate |-> R(0), avg_confidence |-> R(0),
          avg_units |-> R(0), total_profit |-> R(0), roi |-> R(0)]
    ELSE BucketMetrics(
             Len(threshold_hits),
             CountOutcome([i \in DOMAIN threshold_hits |-> results_by_game[threshold_hits[i].game_id].outcome], "win"),
             CountOutcome([i \in DOMAIN threshold_hits |-> results_by_game[threshold_hits[i].game_id].outcome], "loss"),
             CountOutcome([i \in DOMAIN threshold_hits |-> results_by_game[threshold_hits[i].game_id].outcome], "push"),
             SumSeq([i \in DOMAIN threshold_hits |-> threshold_hits[i].confidence_score]),
             SumSeq([i \in DOMAIN threshold_hits |-> threshold_hits[i].unit_size]),
             SumSeq([i \in DOMAIN threshold_hits |-> results_by_game[threshold_hits[i].game_id].unit_profit]))

\* PPMAnalyzer._analyze_bucket
_analyze_bucket(logs, results_by_game, ppm_threshold) ==
    BucketOf(SelectSeq(logs, LAMBDA log : ThresholdHit(log, results_by_game, ppm_threshold)), results_by_game)

\* variant of FirstMax: the first threshold in among, whatever its key
FirstAmong(among, analysis, key) == CHOOSE i \in among : \A j \in among : i <= j

\* max(items, key=...) over the thresholds in among: the first of the
\* largest, in the order of ppm_buckets
FirstMax(among, analysis, key) ==
    CHOOSE i \in among :
        /\ \A j \in among : Le(analysis[j][key], analysis[i][key])
        /\ \A j \in among : j < i => Lt(analysis[j][key], analysis[i][key])

\* variant of ValidThresholds: every threshold counts as valid
ValidThresholdsAll(analysis) == DOMAIN analysis

\* "Filter to thresholds with sufficient sample size"
ValidThresholds(analysis) == {i \in DOMAIN analysis : analysis[i].triggers >= MinSampleSize}

\* the entry of the result for the best threshold i (None for best_win_rate
\* when there is none)
BestEntry(analysis, i) ==
    [threshold |-> ppm_buckets[i], roi |-> analysis[i].roi,
     win_rate |-> analysis[i].win_rate, triggers |-> analysis[i].triggers]

\* the result when some threshold is valid
OptimalAmong(analysis, valid, positive_roi) ==
    [best_roi |-> BestEntry(analysis, FirstMax(valid, analysis, "roi")),
     best_win_rate |->
         IF positive_roi # {}
         THEN BestEntry(analysis, FirstMax(positive_roi, analysis, "win_rate"))
         ELSE NoneDict,
     recommendation |->
         [threshold |-> ppm_buckets[FirstMax(valid, analysis, "roi")],
          reason |-> "Highest ROI"]]

\* PPMAnalyzer._find_optimal_threshold; analysis holds the buckets in the
\* order of ppm_buckets
_find_optimal_threshold(analysis) ==
    IF ValidThresholds(analysis) = {}
    THEN [threshold |-> NoneNum,
          reason |-> "Insufficient data (need at least 10 triggers)",
          recommendation |-> "Continue collecting data"]
    ELSE OptimalAmong(analysis, ValidThresholds(analysis),
                      {i \in ValidThresholds(analysis) : Gt(analysis[i].roi, R(0))})

\* results_by_game = {r['game_id']: r for r in results}: a later row of a
\* game replaces an earlier one
RECURSIVE ResultsByGame(_)
ResultsByGame(rows) ==
    IF rows = <<>> THEN EmptyDict
    ELSE Put(ResultsByGame(SubSeq(rows, 1, Len(rows) - 1)), rows[Len(rows)].game_id, rows[Len(rows)])

\* analyze_ppm_performance on the logs and results the loaders returned
AnalyzePpmPerformance(logs, rows) ==
    /\ ~report.called
    /\ \E results_by_game \in {ResultsByGame(rows)} :
       \E by_threshold \in {[i \in DOMAIN ppm_buckets |-> _analyze_bucket(logs, results_by_game, ppm_buckets[i])]} :
           report' = [called |-> TRUE, logs |-> logs,
                        results_by_game |-> results_by_game,
                        by_threshold |-> by_threshold,
                        optimal_threshold |-> _find_optimal_threshold(by_threshold)]
    /\ UNCHANGED <<monitorVars, weights, args, ret, unit_call, prev, applied,
                   scoring, tracked, ended, backfilled, feed, polled, all_live>>

\* the kinds of poll record in the logs: (game, bet_type, required_ppm,
\* confidence_score, unit_size)
LogKinds ==
    << [game_id |-> "g1", bet_type |-> "under", required_ppm |-> R(3), confidence_score |-> R(49), unit_size |-> Rat(1, 2)],
       [game_id |-> "g1", bet_type |-> "UNDER", required_ppm |-> Rat(33, 5), confidence_score |-> R(65), unit_size |-> R(1)],
       [game_id |-> "g2", bet_type |-> "over", required_ppm |-> Rat(8, 5), confidence_score |-> R(52), unit_size |-> Rat(1, 2)],
       [game_id |-> "g2", bet_type |-> "", required_ppm |-> R(3), confidence_score |-> R(30), unit_size |-> R(0)] >>

\* how often a kind of record occurs in the logs
LogCounts == {0, 5, 10}

\* the logs with counts[k] records of kind k, kind after kind
RECURSIVE LogsOf(_, _)
LogsOf(counts, k) ==
    IF k = 0 THEN <<>>
    ELSE LogsOf(counts, k - 1) \o [i \in 1..counts[k] |-> LogKinds[k]]

\* the result rows a game can have: the outcome of its trigger with the
\* unit profit that goes with it, or none for a game without a trigger
ResultRows(id) ==
    { [game_id |-> id, outcome |-> "win", unit_profit |-> R(1)],
      [game_id |-> id, outcome |-> "loss", unit_profit |-> R(-1)],
      [game_id |-> id, outcome |-> "push", unit_profit |-> R(0)],
      [game_id |-> id, outcome |-> "", unit_profit |-> R(0)] }

\* the results log: no row, a row for g1, or rows for g1 and g2
ResultLogs ==
    {<<>>} \cup {<<r1>> : r1 \in ResultRows("g1")}
           \cup {<<r1, r2>> : r1 \in ResultRows("g1"), r2 \in ResultRows("g2")}

InitAnalyzer ==
    /\ InitMonitor
    /\ sport_mode = "ncaa"
    /\ args = NoArgs
    /\ ret = [b \in BetTypes |-> NoRet]
    /\ unit_call = NoRet
    /\ InitCalls

NextAnalyzer ==
    \E counts \in [DOMAIN LogKinds -> LogCounts], rows \in ResultLogs :
        AnalyzePpmPerformance(LogsOf(counts, Len(LogKinds)), rows)

SpecAnalyzer == InitAnalyzer /\ [][NextAnalyzer]_vars

-----------------------------------------------------------------------------
(* Properties of one analyzed poll (SpecPace).  They are stated on the game *)
(* analyze_game was handed (game) and the locals it ended with (frame).     *)

\* analyze_game went past the line check and computed its PPM values
Logged == frame.stage = "logged"

GameTotal == game.home_score + game.away_score

\* minutes on the period clock of the game
GameClock == Add(R(game.minutes_remaining), Rat(game.seconds_remaining, 60))

\* the first totals point among the game's bookmakers
GameLine ==
    game.bookmakers[CHOOSE i \in DOMAIN game.bookmakers :
                        /\ game.bookmakers[i] # NoneNum
                        /\ \A j \in 1..(i - 1) : game.bookmakers[j] = NoneNum]

\* number and length in minutes of the regulation periods
RegulationPeriods == IF sport_mode = "nba" THEN 4 ELSE 2
RegulationPeriodMinutes == IF sport_mode = "nba" THEN 12 ELSE 20
RegulationMinutes == R(RegulationPeriods * RegulationPeriodMinutes)

Rule1UnderFired ==
    \E i \in DOMAIN frame.trigger_reasons :
        frame.trigger_reasons[i] = "required_ppm > PPM_THRESHOLD_UNDER"
Rule1OverFired ==
    \E i \in DOMAIN frame.trigger_reasons :
        frame.trigger_reasons[i] = "required_ppm < PPM_THRESHOLD_OVER"
Rule2Fired ==
    \E i \in DOMAIN frame.trigger_reasons :
        frame.trigger_reasons[i] = "ppm_diff > PPM_DIFFERENCE_THRESHOLD"

\* C1: on every poll that gets as far as the PPM values, required_ppm is
\* (line - current total) / minutes remaining when minutes remaining > 0 and
\* 0 when minutes remaining <= 0; nothing keeps it from being negative.
C1_RequiredPpm ==
    Logged =>
        /\ frame.ou_line = GameLine
        /\ frame.required_ppm =
               IF Gt(frame.total_time_remaining, Zero)
               THEN Div(Sub(GameLine, R(GameTotal)), frame.total_time_remaining)
               ELSE Zero

\* C1 witness: a poll whose total already exceeds the line, with time left:
\* required_ppm is negative
C1_NegativeRequired ==
    /\ Logged
    /\ GameTotal = 130
    /\ GameLine = R(120)
    /\ Gt(frame.total_time_remaining, Zero)
    /\ Lt(frame.required_ppm, Zero)

\* the minutes elapsed the overtime rule of C2 gives: regulation plus the
\* overtimes already played plus the part of the current overtime played
OvertimeElapsed ==
    Add(Add(RegulationMinutes, R(5 * (game.period - RegulationPeriods - 1))),
        Sub(R(5), GameClock))

\* C2: current_ppm is current total / minutes elapsed (0 when minutes elapsed
\* <= 0), where minutes elapsed is total game minutes - minutes remaining in
\* regulation and, in the k-th overtime with c minutes on the clock, total game
\* minutes + 5(k-1) + (5 - c).
C2_CurrentPpm ==
    Logged =>
        /\ frame.minutes_elapsed =
               IF game.period > RegulationPeriods THEN OvertimeElapsed
               ELSE Sub(RegulationMinutes, frame.total_time_remaining)
        /\ frame.current_ppm =
               IF Gt(frame.minutes_elapsed, Zero)
               THEN Div(R(GameTotal), frame.minutes_elapsed)
               ELSE Zero

\* C3: minutes remaining is period-aware in both sports: the whole game before
\* the first period, the period clock plus the full length of every later
\* regulation period in an earlier regulation period, and the period clock
\* alone in the final regulation period and in every overtime.
C3_MinutesRemaining ==
    frame.stage # "none" =>
        frame.total_time_remaining =
            IF game.period = 0 THEN RegulationMinutes
            ELSE IF game.period < RegulationPeriods
                 THEN Add(R(RegulationPeriodMinutes * (RegulationPeriods - game.period)),
                          GameClock)
                 ELSE GameClock

\* C3 witness: an NBA game in its second quarter with 5:30 on the clock has
\* 24 + 5.5 minutes remaining
C3_SecondQuarter ==
    /\ Logged
    /\ sport_mode = "nba"
    /\ game.period = 2
    /\ game.minutes_remaining = 5
    /\ game.seconds_remaining = 30
    /\ frame.total_time_remaining = Rat(59, 2)

\* the snapshot of C4: 58-54, second half, 5:00 on the clock, line 145, NCAA
C4_Scenario ==
    /\ Logged
    /\ sport_mode = "ncaa"
    /\ game.home_score = 58
    /\ game.away_score = 54
    /\ game.period = 2
    /\ game.minutes_remaining = 5
    /\ game.seconds_remaining = 0
    /\ GameLine = R(145)

\* C4 as stated: for that snapshot minutes elapsed is 30, minutes remaining 5,
\* required_ppm 6.6, current_ppm 112/30 (3.73 to two places), the difference
\* -2.87 to two places, Trigger 1 fires with side under and Trigger 2 fires too.
C4_AsStated ==
    C4_Scenario =>
        /\ frame.minutes_elapsed = R(30)
        /\ frame.total_time_remaining = R(5)
        /\ frame.required_ppm = Rat(66, 10)
        /\ frame.current_ppm = Rat(112, 30)
        /\ Round(frame.current_ppm, 100) = Rat(373, 100)
        /\ Round(frame.ppm_difference, 100) = Rat(-287, 100)
        /\ Rule1UnderFired /\ frame.bet_type = "under"
        /\ Rule2Fired

\* C4 amended: for that snapshot minutes elapsed is 40 - 5 = 35, minutes
\* remaining 5, required_ppm 6.6, current_ppm 112/35 = 3.2, the difference
\* 3.2 - 6.6 = -3.4, Trigger 1 fires with side under and Trigger 2 fires too.
C4_Snapshot ==
    C4_Scenario =>
        /\ frame.minutes_elapsed = R(35)
        /\ frame.total_time_remaining = R(5)
        /\ frame.required_ppm = Rat(66, 10)
        /\ frame.current_ppm = Rat(32, 10)
        /\ frame.ppm_difference = Rat(-34, 10)
        /\ frame.log_data.required_ppm = Rat(66, 10)
        /\ frame.log_data.current_ppm = Rat(32, 10)
        /\ frame.log_data.ppm_difference = Rat(-34, 10)
        /\ Rule1UnderFired /\ ~Rule1OverFired /\ frame.bet_type = "under"
        /\ Rule2Fired
        /\ frame.trigger_flag

\* C4 witness: the snapshot has been analyzed and logged as an under trigger
C4_Analyzed ==
    /\ C4_Scenario
    /\ frame.log_data.trigger_flag
    /\ frame.log_data.bet_type = "under"

\* C2 restricted to regulation (not a claim of its own: it shows where the
\* overtime rule is the only difference)
RegulationElapsed ==
    (Logged /\ game.period <= RegulationPeriods) =>
        /\ frame.minutes_elapsed = Sub(RegulationMinutes, frame.total_time_remaining)
        /\ frame.current_ppm =
               IF Gt(frame.minutes_elapsed, Zero)
               THEN Div(R(GameTotal), frame.minutes_elapsed)
               ELSE Zero

\* C5: Trigger 1 compares strictly: required_ppm > PPM_THRESHOLD_UNDER sets the
\* side to under and triggers; otherwise required_ppm < PPM_THRESHOLD_OVER sets
\* it to over and triggers; with the two thresholds equal, a required_ppm at
\* the threshold takes neither branch and every other value exactly one.
C5_Rule1 ==
    Logged =>
        /\ Gt(frame.required_ppm, PPM_THRESHOLD_UNDER) =>
               /\ Rule1UnderFired /\ ~Rule1OverFired
               /\ frame.bet_type = "under" /\ frame.trigger_flag
        /\ (~Gt(frame.required_ppm, PPM_THRESHOLD_UNDER)
            /\ Lt(frame.required_ppm, PPM_THRESHOLD_OVER)) =>
               /\ Rule1OverFired /\ ~Rule1UnderFired
               /\ frame.bet_type = "over" /\ frame.trigger_flag
        /\ PPM_THRESHOLD_UNDER = PPM_THRESHOLD_OVER =>
               IF frame.required_ppm = PPM_THRESHOLD_UNDER
               THEN ~Rule1UnderFired /\ ~Rule1OverFired
               ELSE Rule1UnderFired # Rule1OverFired

\* C5 witness: a poll whose required_ppm is exactly the threshold and on which
\* nothing triggers
C5_AtThreshold ==
    /\ Logged
    /\ frame.required_ppm = PPM_THRESHOLD_UNDER
    /\ frame.required_ppm = PPM_THRESHOLD_OVER
    /\ ~frame.trigger_flag
    /\ frame.bet_type = NoneStr

\* C6: Trigger 2 triggers the poll whenever |current_ppm - required_ppm| >
\* PPM_DIFFERENCE_THRESHOLD, Trigger 1 having fired or not; it takes the side
\* from the sign of the difference (over when > 0, else under) only when
\* Trigger 1 left it unset, and never overwrites a side Trigger 1 chose.
C6_Rule2 ==
    Logged =>
        /\ Rule2Fired <=>
               Gt(Abs(Sub(frame.current_ppm, frame.required_ppm)),
                  PPM_DIFFERENCE_THRESHOLD)
        /\ Rule2Fired => frame.trigger_flag
        /\ Rule1UnderFired => frame.bet_type = "under"
        /\ Rule1OverFired => frame.bet_type = "over"
        /\ (Rule2Fired /\ ~Rule1UnderFired /\ ~Rule1OverFired) =>
               frame.bet_type =
                   IF Gt(Sub(frame.current_ppm, frame.required_ppm), Zero)
                   THEN "over" ELSE "under"

\* C6 witness: Trigger 1 chose under, Trigger 2 fires on a positive difference,
\* and the side is still under
C6_SideKept ==
    /\ Logged
    /\ Rule1UnderFired
    /\ Rule2Fired
    /\ Gt(Sub(frame.current_ppm, frame.required_ppm), Zero)
    /\ frame.bet_type = "under"

-----------------------------------------------------------------------------
(* Properties of calculate_confidence called directly (SpecScorer) *)

\* a metrics argument that is absent or empty
Missing(d) == d = NoneDict \/ DOMAIN d = {}

\* C7: when either team's metrics are missing (None or empty),
\* calculate_confidence returns confidence 0, unit recommendation 0 and a
\* breakdown holding the missing-data marker and nothing else: no factor has
\* been evaluated and the call returns normally.
C7_MissingMetrics ==
    \A b \in BetTypes :
        (ret[b].called /\ (Missing(args.home_metrics) \/ Missing(args.away_metrics))) =>
            /\ ret[b].value.confidence = R(0)
            /\ ret[b].value.unit_recommendation = R(0)
            /\ DOMAIN ret[b].value.breakdown = {"error"}
            /\ ret[b].value.breakdown.error = "Missing team data"

\* C7 witness: a call with the home metrics present and the away metrics empty
\* has returned
C7_AwayMissing ==
    /\ ret["under"].called
    /\ ~Missing(args.home_metrics)
    /\ DOMAIN args.away_metrics = {}
    /\ ret["under"].value.confidence = R(0)

\* the confidence a running score of total is capped to
Capped(total) ==
    IF Lt(total, R(0)) THEN R(0) ELSE IF Gt(total, R(100)) THEN R(100) ELSE total

\* C8: whatever the metrics, side, PPM values, foul counts, live stats and
\* weights, the confidence returned lies in [0, 100]: it is the unclamped total
\* when that is in range, 0 when it is below 0 and 100 when it is above 100.
C8_Clamped ==
    \A b \in BetTypes :
        ret[b].called =>
            /\ Ge(ret[b].value.confidence, R(0))
            /\ Le(ret[b].value.confidence, R(100))
            /\ (~Missing(args.home_metrics) /\ ~Missing(args.away_metrics)) =>
                   ret[b].value.confidence = Capped(ret[b].value.breakdown.total_score)

\* C8 witness: an under call whose running score passed 100 returned 100
C8_Above ==
    /\ ret["under"].called
    /\ ~Missing(args.home_metrics) /\ ~Missing(args.away_metrics)
    /\ Gt(ret["under"].value.breakdown.total_score, R(100))
    /\ ret["under"].value.confidence = R(100)

\* the non-PPM part of a returned running score: total_score - 50 - ppm_severity
NonPpmPart(value) ==
    Sub(Sub(value.breakdown.total_score, R(50)), value.breakdown.ppm_severity)

\* C10: for the same metrics, foul counts, live stats and weights, every
\* non-PPM contribution enters with +1 for under and -1 for over, so
\* total_score - 50 - ppm_severity for over is exactly the negation of that
\* quantity for under.
C10_Polarity ==
    (/\ ret["under"].called /\ ret["over"].called
     /\ ret["under"].weights = ret["over"].weights
     /\ ~Missing(args.home_metrics) /\ ~Missing(args.away_metrics)) =>
        NonPpmPart(ret["over"].value) = Neg(NonPpmPart(ret["under"].value))

\* C10 witness: both sides scored under the same weights, with a non-PPM part
\* that is not zero
C10_BothSides ==
    /\ ret["under"].called /\ ret["over"].called
    /\ ret["under"].weights = ret["over"].weights
    /\ ~Missing(args.home_metrics) /\ ~Missing(args.away_metrics)
    /\ Gt(NonPpmPart(ret["under"].value), Zero)
    /\ Lt(NonPpmPart(ret["over"].value), Zero)

-----------------------------------------------------------------------------
(* Properties of _get_unit_recommendation called directly (SpecUnits) *)

\* the units C9 lists for the band ends
BandEnds ==
    (R(0) :> R(0)) @@ (R(40) :> R(0)) @@ (R(41) :> Rat(1, 2)) @@ (R(60) :> Rat(1, 2))
    @@ (R(61) :> R(1)) @@ (R(75) :> R(1)) @@ (R(76) :> R(2)) @@ (R(85) :> R(2))
    @@ (R(86) :> R(3)) @@ (R(100) :> R(3))

\* C9: the unit recommendation is always one of 0, 0.5, 1, 2, 3, and the
\* confidence scores 0, 40, 41, 60, 61, 75, 76, 85, 86, 100 give exactly
\* 0, 0, 0.5, 0.5, 1, 1, 2, 2, 3, 3 units.
C9_Units ==
    unit_call.called =>
        /\ unit_call.value \in {R(0), Rat(1, 2), R(1), R(2), R(3)}
        /\ unit_call.confidence \in DOMAIN BandEnds =>
               unit_call.value = BandEnds[unit_call.confidence]

\* C9 witness: a confidence of 41 has been given half a unit
C9_LowBand ==
    /\ unit_call.called
    /\ unit_call.confidence = R(41)
    /\ unit_call.value = Rat(1, 2)

-----------------------------------------------------------------------------
(* Properties of the PPM-severity term (SpecScorer) *)

\* an under call (bet_type "under") on two present metrics has returned
UnderScored ==
    /\ ret["under"].called
    /\ ~Missing(args.home_metrics) /\ ~Missing(args.away_metrics)

\* C11: for side under the PPM-severity term is 0 at a required_ppm equal to
\* PPM_THRESHOLD_UNDER, it is negative below that point and positive above it
\* (bands mirrored about it), and it enters the score as it is, without the
\* polarity multiplier.
C11_SeverityNeutral ==
    UnderScored =>
        /\ args.required_ppm = PPM_THRESHOLD_UNDER =>
               ret["under"].value.breakdown.ppm_severity = R(0)
        /\ Lt(args.required_ppm, PPM_THRESHOLD_UNDER) =>
               Lt(ret["under"].value.breakdown.ppm_severity, R(0))
        /\ Gt(args.required_ppm, PPM_THRESHOLD_UNDER) =>
               Gt(ret["under"].value.breakdown.ppm_severity, R(0))

-----------------------------------------------------------------------------
(* Properties of the scorer call by call (SpecTuning) *)

\* side b was scored before and after one team's pace was raised, both times
\* to the end and under one and the same weights table
ScoredTwice(b) ==
    /\ prev.called
    /\ prev.ret[b].called /\ ret[b].called
    /\ "pace" \in DOMAIN prev.ret[b].added /\ "pace" \in DOMAIN ret[b].added
    /\ prev.ret[b].read = ret[b].read

\* the pace of the raised team went from at or below the fast-pace threshold
\* of the table the calls of side b read to above it
RaisedAcross(b) ==
    /\ Le(TeamPace(prev.args[prev.team]), ret[b].read.pace.fast_pace_threshold)
    /\ Gt(TeamPace(args[prev.team]), ret[b].read.pace.fast_pace_threshold)

\* C12: with every other input the same, raising one team's pace from at or
\* below the fast-pace threshold to above it strictly lowers what the pace
\* factor adds to the score for side under and strictly raises it for side
\* over.
C12_PaceMonotone ==
    \A b \in Sides :
        (ScoredTwice(b) /\ RaisedAcross(b)) =>
            IF b = "under"
            THEN Lt(ret[b].added.pace, prev.ret[b].added.pace)
            ELSE Gt(ret[b].added.pace, prev.ret[b].added.pace)

\* C12 witness: a team exactly at the threshold (72) was raised to 73, and both
\* sides were scored before and after: under lost points, over gained them
C12_FromThreshold ==
    /\ ScoredTwice("under") /\ ScoredTwice("over")
    /\ TeamPace(prev.args[prev.team]) = ret["under"].read.pace.fast_pace_threshold
    /\ TeamPace(args[prev.team]) = R(73)
    /\ Lt(ret["under"].added.pace, prev.ret["under"].added.pace)
    /\ Gt(ret["over"].added.pace, prev.ret["over"].added.pace)

-----------------------------------------------------------------------------
(* Properties of the returned breakdown (SpecScorer) *)

\* the breakdown entries that belong to factor evaluators
FactorKeys(breakdown) ==
    DOMAIN breakdown \ {"base", "bet_type", "ppm_severity", "total_score", "final_score"}

\* the sum of the contributions the factor entries named in keys record
RECURSIVE RecordedSum(_, _)
RecordedSum(breakdown, keys) ==
    IF keys = {} THEN Zero
    ELSE Add(Get(breakdown[CHOOSE k \in keys : TRUE], "total", Zero),
             RecordedSum(breakdown, keys \ {CHOOSE k \in keys : TRUE}))

\* the running score recomputed from a breakdown alone
Recomputed(breakdown) ==
    Add(Add(breakdown.base,
            Mul(IF breakdown.bet_type = "over" THEN R(-1) ELSE R(1),
                RecordedSum(breakdown, FactorKeys(breakdown)))),
        breakdown.ppm_severity)

\* C13: when both metrics are present the breakdown records the numeric
\* contribution of every factor applied, the four live-stat factors included
\* when live stats are supplied, and total_score equals 50 + multiplier * (sum
\* of the recorded contributions) + ppm_severity.
C13_Recomputable ==
    \A b \in BetTypes :
        (ret[b].called /\ ~Missing(args.home_metrics) /\ ~Missing(args.away_metrics)) =>
            /\ \A k \in FactorKeys(ret[b].value.breakdown) :
                   "total" \in DOMAIN ret[b].value.breakdown[k]
            /\ (Truthy(args.home_live_stats) \/ Truthy(args.away_live_stats)) =>
                   {"live_shooting", "live_ft_impact", "live_turnovers",
                    "live_rebounding"} \subseteq FactorKeys(ret[b].value.breakdown)
            /\ ret[b].value.breakdown.total_score = Recomputed(ret[b].value.breakdown)

\* C13 without live stats (not a claim of its own: it shows the live-stat
\* factors are the only difference)
SeasonRecomputable ==
    \A b \in BetTypes :
        (/\ ret[b].called /\ ~Missing(args.home_metrics) /\ ~Missing(args.away_metrics)
         /\ ~Truthy(args.home_live_stats) /\ ~Truthy(args.away_live_stats)) =>
            /\ \A k \in FactorKeys(ret[b].value.breakdown) :
                   "total" \in DOMAIN ret[b].value.breakdown[k]
            /\ ret[b].value.breakdown.total_score = Recomputed(ret[b].value.breakdown)

\* the value key k has after the updates of seq, from the configured table on:
\* that of the last update that names k
LastValue(k, seq) ==
    IF \E i \in DOMAIN seq : k \in DOMAIN seq[i]
    THEN seq[CHOOSE i \in DOMAIN seq :
                 /\ k \in DOMAIN seq[i]
                 /\ \A j \in DOMAIN seq : k \in DOMAIN seq[j] => j <= i][k]
    ELSE CONFIDENCE_WEIGHTS[k]

\* the weights table after the updates of seq
TableAfter(seq) == [k \in DOMAIN CONFIDENCE_WEIGHTS |-> LastValue(k, seq)]

\* C14: a calculate_confidence call reads the weights as they are when it is
\* made: the new values for the keys of every update_weights that returned
\* before it and the earlier values for all other keys; what a call returned
\* before an update stays as it was.
C14_WeightsAtCall ==
    \A b \in Sides :
        ret[b].called =>
            /\ \A stage \in DOMAIN ret[b].read :
                   ret[b].read[stage] = TableAfter(ret[b].applied)
            /\ ret[b].value =
                   calculate_confidence(TableAfter(ret[b].applied),
                       args.home_metrics, args.away_metrics, args.required_ppm,
                       args.current_total, args.ou_line, b, args.current_ppm,
                       args.home_fouls, args.away_fouls,
                       args.home_live_stats, args.away_live_stats)

\* C14 witness: under was scored before any update and over after two of them;
\* over read the retuned penalty and threshold, under the configured ones, and
\* the pace factor added different amounts
C14_BeforeAndAfter ==
    /\ ret["under"].called /\ ret["over"].called
    /\ ret["under"].applied = <<>>
    /\ Len(ret["over"].applied) = 2
    /\ "pace" \in DOMAIN ret["under"].read /\ "pace" \in DOMAIN ret["over"].read
    /\ ret["under"].read.pace = CONFIDENCE_WEIGHTS
    /\ ret["over"].read.pace.fast_pace_penalty = R(-8)
    /\ ret["over"].read.pace.fast_pace_threshold = R(71)
    /\ ret["over"].read.pace.slow_pace_bonus = CONFIDENCE_WEIGHTS.slow_pace_bonus
    /\ ret["over"].added.pace # Neg(ret["under"].added.pace)

\* the weights tables read(stage) of one call are one and the same table
OneTable(read) == \A s1 \in DOMAIN read, s2 \in DOMAIN read : read[s1] = read[s2]

\* C15: no weights update is applied in the middle of a calculate_confidence
\* call: all evaluators of one call, _evaluate_pace and _evaluate_matchup among
\* them, read one and the same weights table, and while a call is in progress
\* that table is still the scorer's table.
C15_NoTearing ==
    /\ \A b \in Sides : ret[b].called => OneTable(ret[b].read)
    /\ scoring # Idle =>
           /\ OneTable(scoring.read)
           /\ \A stage \in DOMAIN scoring.read : scoring.read[stage] = weights

\* C15 witness: an update arrived after the under call had started and was
\* applied only once that call had returned; the under call read the earlier
\* table in _evaluate_pace and in _evaluate_matchup, and the call now in
\* progress reads the new one
C15_NextCallSees ==
    /\ ret["under"].called
    /\ "matchup" \in DOMAIN ret["under"].read
    /\ ret["under"].read.pace.fast_pace_threshold
           = ret["under"].read.matchup.fast_pace_threshold
    /\ Len(applied) > Len(ret["under"].applied)
    /\ scoring # Idle
    /\ scoring.stage = "finish"
    /\ scoring.read.matchup = weights
    /\ scoring.read.pace.fast_pace_threshold # ret["under"].read.pace.fast_pace_threshold

-----------------------------------------------------------------------------
(* Properties of the outcome resolvers called directly (SpecResolve) *)

\* over, under or push as the total stands to the line
Classify(final_total, ou_line) ==
    IF final_total * ou_line[2] > ou_line[1] THEN "over"
    ELSE IF final_total * ou_line[2] < ou_line[1] THEN "under"
    ELSE "push"

\* calculate_outcome returned a result dict
Backfilled == backfilled.called /\ backfilled.value # NoneDict

\* C16: in every result the monitor's game-end handler records and in every
\* result the backfill resolver returns, the line is not null and ou_result is
\* over when final_total > line, under when final_total < line and push when
\* they are equal.
C16_OuResult ==
    /\ \A i \in DOMAIN results :
           /\ results[i].ou_line # NoneNum
           /\ results[i].ou_result =
                  Classify(results[i].final_total, results[i].ou_line)
    /\ Backfilled =>
           /\ backfilled.value.ou_line # NoneNum
           /\ backfilled.value.final_total = backfilled.final_total
           /\ backfilled.value.ou_result =
                  Classify(backfilled.final_total, backfilled.value.ou_line)

\* C16 witness: the handler recorded a push at 145 against a line of 145, and
\* the backfill resolver returned a push for the same game
C16_Push ==
    /\ \E i \in DOMAIN results :
           /\ results[i].final_total = 145
           /\ results[i].ou_line = R(145)
           /\ results[i].ou_result = "push"
    /\ Backfilled
    /\ backfilled.final_total = 145
    /\ backfilled.value.ou_result = "push"

\* the outcome of a bet on side when the game finished ou_result
ExpectedOutcome(side, ou_result) ==
    IF ou_result = "push" THEN "push"
    ELSE IF side = ou_result THEN "win"
    ELSE "loss"

\* a poll of game id was tracked and it triggered
Triggered(id) == id \in DOMAIN tracked /\ tracked[id].trigger_flag

\* C17: for a game on which a trigger fired, the recorded outcome is win exactly
\* when the trigger's side equals ou_result, push when ou_result is push,
\* whatever the side, and loss otherwise, in the handler's result rows and in
\* the backfill resolver's result.
C17_Outcome ==
    /\ \A i \in DOMAIN results, id \in GameIds :
           (results[i].home_team = Teams[id][1] /\ Triggered(id)) =>
               results[i].outcome =
                   ExpectedOutcome(tracked[id].bet_type, results[i].ou_result)
    /\ (Backfilled /\ Triggered(backfilled.game)) =>
           backfilled.value.outcome =
               ExpectedOutcome(tracked[backfilled.game].bet_type,
                               backfilled.value.ou_result)

\* C17 for the backfill resolver alone (not a claim of its own: it shows the
\* handler is the only difference)
BackfillOutcomeRight ==
    (Backfilled /\ Triggered(backfilled.game)) =>
        backfilled.value.outcome =
            ExpectedOutcome(tracked[backfilled.game].bet_type,
                            backfilled.value.ou_result)

\* the profit of a result r is that of its outcome: +max_units on win,
\* -max_units on loss, 0 on push; without a trigger the outcome is "" and the
\* profit 0
ProfitRight(r) ==
    /\ r.outcome \in {"win", "loss", "push", ""}
    /\ r.outcome = "win" => r.unit_profit = r.max_units
    /\ r.outcome = "loss" => r.unit_profit = Neg(r.max_units)
    /\ r.outcome = "push" => r.unit_profit = R(0)
    /\ r.our_trigger = (r.outcome # "")
    /\ ~r.our_trigger => r.unit_profit = R(0)

C19_Indeterminate ==
    /\ \A i \in DOMAIN ended :
           NoLine(ended[i].ou_line) => ~ended[i].raised /\ ~ended[i].wrote
    /\ \A i \in DOMAIN ended : ~ended[i].raised
    /\ \A i \in DOMAIN results :
           results[i].ou_line # NoneNum /\ results[i].ou_line # Zero
    /\ (backfilled.called
        /\ (backfilled.row.ou_line = NoneNum \/ backfilled.row.ou_line = Zero)) =>
           backfilled.value = NoneDict

\* C19 witness: a finished game with a line of 0 and one with no line at all
\* went through the monitor without a result, and the backfill resolver
\* returned None for a fetched final score
C19_ZeroLine ==
    /\ \E i \in DOMAIN ended :
           ended[i].ou_line \in {Zero, NoneNum} /\ ~ended[i].wrote /\ ~ended[i].raised
    /\ results = <<>>
    /\ backfilled.called
    /\ backfilled.fetched
    /\ backfilled.row.ou_line \in {Zero, NoneNum}
    /\ backfilled.value = NoneDict

\* the finished game of ended[j] had no result written by an earlier call
NotYetRecorded(j) == \A i \in 1..(j - 1) : ended[i].game = ended[j].game => ~ended[i].wrote

\* C20: the monitor records at most one result per game: a later completion
\* of a game whose result was written writes nothing, and a finished game
\* with a line whose result was not yet written gets it written, whatever
\* was recorded for other games.
C20_OncePerGame ==
    /\ \A j \in DOMAIN ended : ended[j].wrote => NotYetRecorded(j)
    /\ \A j \in DOMAIN ended :
           (ended[j].reached /\ ~ended[j].raised /\ NotYetRecorded(j)) => ended[j].wrote

\* for games that carry the "id" key the statement of C20 holds
OncePerGameWithId == (args # NoArgs /\ args.shape = "scores") => C20_OncePerGame


-----------------------------------------------------------------------------
(* Properties of the run loop over several polls (SpecFeed, SpecFeedFair) *)

\* the position of game id on the scoreboard
BoardIndex(id) == IF id = "g1" THEN 1 ELSE 2

\* analyze_game read a poll of game id while it was live
Monitored(id) == \E i \in DOMAIN polled : polled[i].game_id = id

\* a poll's scoreboard showed game id as completed
ReportedComplete(id) ==
    \E i \in DOMAIN feed :
        StageGame(id, feed[i].stages[BoardIndex(id)]).completed

\* the monitor has written a result row for game id
ResultRecorded(id) ==
    \E i \in DOMAIN results : results[i].home_team = FeedTeams[id][1]

\* C21: every monitored game that the scoreboard reports as completed
\* eventually has a result recorded by the monitor.
C21_EventuallyRecorded ==
    \A id \in GameIds : (Monitored(id) /\ ReportedComplete(id)) ~> ResultRecorded(id)

\* the run loop never records a result: a finished game is not live, and
\* poll_live_games analyzes live games only
NoResultFromPolls == results = <<>> /\ (game # NoGame => ~game.completed)


\* the polls of game id that analyze_game read, as indices of polled
PollsOf(id) == {i \in DOMAIN polled : polled[i].game_id = id}

\* the first poll of game id whose confidence no other poll of it exceeds
BestPoll(id) ==
    CHOOSE i \in PollsOf(id) :
        /\ \A j \in PollsOf(id) : Le(polled[j].confidence_score, polled[i].confidence_score)
        /\ \A j \in PollsOf(id) : j < i => Lt(polled[j].confidence_score, polled[i].confidence_score)

\* the state the monitor holds for game id: the entry under the key
\* _update_game_state used for its polls
TrackedState(id) == game_states[polled[BestPoll(id)].state_key]

\* the tracked state of game id is that of its own polls
TrackedOwn(id) ==
    /\ TrackedState(id).max_confidence = Max(R(0), polled[BestPoll(id)].confidence_score)
    /\ Gt(polled[BestPoll(id)].confidence_score, R(0)) =>
           TrackedState(id).max_units = polled[BestPoll(id)].unit_size
    /\ TrackedState(id).triggered = (\E i \in PollsOf(id) : polled[i].trigger_flag)

\* C22: after any polls of any games, the tracked state of a game holds the
\* maximum confidence over the polls of that game alone, the unit size of
\* the poll that attained it, and the trigger flag of its own polls; polls
\* of other games leave it alone.
C22_MaxPerGame == \A id \in GameIds : PollsOf(id) # {} => TrackedOwn(id)

\* while only one game has been analyzed, its tracked state is that of its
\* own polls
OneGameTracked == (PollsOf("g1") = {} \/ PollsOf("g2") = {}) => C22_MaxPerGame


-----------------------------------------------------------------------------
(* Properties of the threshold analysis (SpecAnalyzer) *)

\* the poll records of the analyzed logs whose game has a result and for
\* which the side-specific half of Rule 1 fires at the i-th threshold
RuleOneHits(i) ==
    {k \in DOMAIN report.logs :
        ThresholdHitStrict(report.logs[k], report.results_by_game, ppm_buckets[i])}

\* the poll records with a side and a result whose required_ppm is exactly
\* the i-th threshold
AtThreshold(i) ==
    {k \in DOMAIN report.logs :
        /\ Lower(report.logs[k].bet_type) \in {"under", "over"}
        /\ report.logs[k].game_id \in DOMAIN report.results_by_game
        /\ report.logs[k].required_ppm = ppm_buckets[i]}

\* C23: at every threshold T of the sweep the analyzer counts exactly the
\* poll records with a recorded result for which the side-specific half of
\* Rule 1 fires at T (under and required_ppm > T, or over and
\* required_ppm < T); a record with required_ppm = T is not counted.
C23_RuleOne ==
    report.called =>
        \A i \in DOMAIN ppm_buckets :
            report.by_threshold[i].triggers = Cardinality(RuleOneHits(i))

\* what is counted is Rule 1's records and those with required_ppm = T
CountsAtThreshold ==
    report.called =>
        \A i \in DOMAIN ppm_buckets :
            report.by_threshold[i].triggers =
                Cardinality(RuleOneHits(i)) + Cardinality(AtThreshold(i))


\* the i-th threshold has at least the minimum sample size of triggers
Sufficient(i) == report.by_threshold[i].triggers >= MinSampleSize

\* the i-th threshold has enough triggers and a positive ROI
SufficientPositive(i) == Sufficient(i) /\ Gt(report.by_threshold[i].roi, R(0))

\* the position in the sweep of a reported threshold
SweepIndex(threshold) == CHOOSE i \in DOMAIN ppm_buckets : ppm_buckets[i] = threshold

\* the reported best-ROI threshold has enough triggers and no other such
\* threshold has a higher ROI
BestRoiRight(optimal) ==
    /\ "best_roi" \in DOMAIN optimal
    /\ optimal.best_roi.threshold \in {ppm_buckets[i] : i \in DOMAIN ppm_buckets}
    /\ Sufficient(SweepIndex(optimal.best_roi.threshold))
    /\ optimal.best_roi.roi = report.by_threshold[SweepIndex(optimal.best_roi.threshold)].roi
    /\ \A j \in DOMAIN ppm_buckets :
           Sufficient(j) => Le(report.by_threshold[j].roi, optimal.best_roi.roi)

\* the reported best-win-rate threshold has enough triggers, a positive ROI
\* and no other such threshold has a higher win rate; it is None when no
\* threshold with enough triggers has a positive ROI
BestWinRateRight(optimal) ==
    /\ "best_win_rate" \in DOMAIN optimal
    /\ IF \E j \in DOMAIN ppm_buckets : SufficientPositive(j)
       THEN /\ optimal.best_win_rate # NoneDict
            /\ optimal.best_win_rate.threshold \in {ppm_buckets[i] : i \in DOMAIN ppm_buckets}
            /\ SufficientPositive(SweepIndex(optimal.best_win_rate.threshold))
            /\ optimal.best_win_rate.win_rate = report.by_threshold[SweepIndex(optimal.best_win_rate.threshold)].win_rate
            /\ \A j \in DOMAIN ppm_buckets :
                   SufficientPositive(j) =>
                       Le(report.by_threshold[j].win_rate, optimal.best_win_rate.win_rate)
       ELSE optimal.best_win_rate = NoneDict

\* C24: when some threshold has at least 10 triggers, the reported best-ROI
\* threshold has at least 10 triggers and the highest ROI of all such
\* thresholds, and the reported best-win-rate threshold has at least 10
\* triggers, ROI > 0 and the highest win rate of all such thresholds with
\* ROI > 0; best_win_rate is None when none of them has ROI > 0.
C24_Optimal ==
    (report.called /\ \E i \in DOMAIN ppm_buckets : Sufficient(i)) =>
        /\ BestRoiRight(report.optimal_threshold)
        /\ BestWinRateRight(report.optimal_threshold)

\* C24 witness: a threshold with too few triggers has a higher ROI than the
\* reported best, and the best ROI and the best win rate are reported at
\* different thresholds
C24_TwoOptima ==
    /\ report.called
    /\ "best_roi" \in DOMAIN report.optimal_threshold
    /\ \E i \in DOMAIN ppm_buckets :
           /\ ~Sufficient(i)
           /\ Gt(report.by_threshold[i].roi, report.optimal_threshold.best_roi.roi)
    /\ report.optimal_threshold.best_win_rate # NoneDict
    /\ report.optimal_threshold.best_win_rate.threshold # report.optimal_threshold.best_roi.threshold

\* a second case of C24: enough triggers at a threshold with a negative
\* ROI, none with a positive one, and best_win_rate is None
NoPositiveRoi ==
    /\ report.called
    /\ \E i \in DOMAIN ppm_buckets : Sufficient(i) /\ Lt(report.by_threshold[i].roi, R(0))
    /\ report.optimal_threshold.best_win_rate = NoneDict


\* C25: when no threshold of the sweep has at least 10 triggers (5 poll
\* records with results, say), the analyzer returns the insufficient-data
\* result: its threshold is None and it holds no best_roi, no best_win_rate
\* and no recommended threshold.
C25_Insufficient ==
    (report.called /\ \A i \in DOMAIN ppm_buckets : ~Sufficient(i)) =>
        /\ DOMAIN report.optimal_threshold = {"threshold", "reason", "recommendation"}
        /\ report.optimal_threshold.threshold = NoneNum
        /\ report.optimal_threshold.reason = "Insufficient data (need at least 10 triggers)"
        /\ report.optimal_threshold.recommendation = "Continue collecting data"

\* C25 witness: five poll records with a won result are counted at some
\* threshold, none has ten, and the result says insufficient data
C25_FivePairs ==
    /\ report.called
    /\ \A i \in DOMAIN ppm_buckets : report.by_threshold[i].triggers <= 5
    /\ \E i \in DOMAIN ppm_buckets :
           /\ report.by_threshold[i].triggers = 5
           /\ report.by_threshold[i].wins = 5
           /\ Gt(report.by_threshold[i].roi, R(0))
    /\ report.optimal_threshold.threshold = NoneNum


-----------------------------------------------------------------------------
(* Further properties of the run loop over several polls (SpecFeed) *)

\* the poll of game id for which _handle_new_trigger ran first
FirstTrigger(id) ==
    CHOOSE i \in PollsOf(id) :
        polled[i].new_trigger /\ \A j \in PollsOf(id) : j < i => ~polled[j].new_trigger

\* the trigger info stored for game id is that of its first handled trigger
StoredOwn(id) ==
    /\ polled[FirstTrigger(id)].trigger_key \in DOMAIN triggered_games
    /\ triggered_games[polled[FirstTrigger(id)].trigger_key].confidence = polled[FirstTrigger(id)].confidence_score
    /\ triggered_games[polled[FirstTrigger(id)].trigger_key].bet_type = Upper(polled[FirstTrigger(id)].bet_type)

\* C26: the new-trigger handler runs at most once per game: after the
\* first triggered poll of a game was handled, later triggered polls of it
\* are not new triggers, and the trigger info stored for a game is not
\* overwritten by a trigger of another game.
C26_OncePerGame ==
    /\ \A i, j \in DOMAIN polled :
           (i < j /\ polled[i].game_id = polled[j].game_id /\ polled[i].new_trigger) =>
               ~polled[j].new_trigger
    /\ \A id \in GameIds :
           (\E i \in PollsOf(id) : polled[i].new_trigger) => StoredOwn(id)

\* the handler runs for every triggered poll, and always stores under the
\* one key None
NewTriggerEveryTime ==
    /\ \A i \in DOMAIN polled : polled[i].new_trigger = polled[i].trigger_flag
    /\ DOMAIN triggered_games \subseteq {NoneStr}


-----------------------------------------------------------------------------
(* Properties of the kill switch (SpecKill) *)

\* the run loop has left its loop through the kill switch
KillSwitched == pc = "stopped"

\* the kill switch fires only when a poll has analyzed live games before
\* and more than no_games_timeout seconds have passed since the last such
\* poll
KillSwitchTimed ==
    KillSwitched =>
        /\ last_live_games_time # NoneNum
        /\ Gt(Sub(R(now), last_live_games_time), R(no_games_timeout))

\* C27: the kill switch stops the monitor only after more than
\* no_games_timeout (300) seconds without live games, never before the
\* first live game has been seen, and never while the scoreboard has
\* reported live games on every poll.
C27_KillSwitch == KillSwitchTimed /\ (KillSwitched => ~all_live)


-----------------------------------------------------------------------------
(* The trigger decision of a poll as a whole (SpecPace) *)

\* C28: on every poll that reaches the trigger decision, trigger_flag is true
\* exactly when trigger_reasons is non-empty and exactly when bet_type is over
\* or under; an untriggered poll has bet_type None (logged as the empty
\* string) and no reasons; trigger_reasons never has more than two entries.
C28_FlagReasonsSide ==
    Logged =>
        /\ frame.trigger_flag <=> (frame.trigger_reasons # <<>>)
        /\ frame.trigger_flag <=> (frame.bet_type \in {"over", "under"})
        /\ ~frame.trigger_flag =>
               /\ frame.bet_type = NoneStr
               /\ frame.trigger_reasons = <<>>
               /\ frame.log_data.bet_type = ""
        /\ frame.log_data.trigger_flag = frame.trigger_flag
        /\ frame.log_data.trigger_reasons = frame.trigger_reasons
        /\ Len(frame.trigger_reasons) <= 2

\* C28 witness: a poll on which only Trigger 1 fired: one reason, the flag set
\* and the side over
C28_OneReason ==
    /\ Logged
    /\ frame.trigger_flag
    /\ Len(frame.trigger_reasons) = 1
    /\ Rule1OverFired
    /\ frame.bet_type = "over"

\* a poll on which both triggers fired
TwoReasons == Logged /\ Len(frame.trigger_reasons) = 2

\* a poll on which neither trigger fired
Untriggered == Logged /\ ~frame.trigger_flag


-----------------------------------------------------------------------------
(* The unit recommendation as a function of the score (SpecScorer) *)

\* C29: the unit recommendation is non-decreasing in the confidence score: of
\* two calculate_confidence results, the one with the higher (or equal)
\* confidence never recommends fewer units, non-integer scores produced by
\* non-integer weights included.
C29_UnitsMonotone ==
    \A b1, b2 \in BetTypes :
        (/\ ret[b1] # NoRet /\ ret[b2] # NoRet
         /\ Le(ret[b1].value.confidence, ret[b2].value.confidence)) =>
            Le(ret[b1].value.unit_recommendation,
               ret[b2].value.unit_recommendation)

\* a score is a whole number
Whole(x) == x[1] % x[2] = 0

\* the same, for results whose scores are whole numbers
UnitsMonotoneWhole ==
    \A b1, b2 \in BetTypes :
        (/\ ret[b1] # NoRet /\ ret[b2] # NoRet
         /\ Whole(ret[b1].value.confidence) /\ Whole(ret[b2].value.confidence)
         /\ Le(ret[b1].value.confidence, ret[b2].value.confidence)) =>
            Le(ret[b1].value.unit_recommendation,
               ret[b2].value.unit_recommendation)


\* the buckets of the report that counted at least one record
Counted == {i \in DOMAIN ppm_buckets : report.by_threshold[i].triggers > 0}

\* C30: in every threshold bucket each counted record is classified as
\* exactly one of win, loss or push, so wins + losses + pushes = triggers;
\* win_rate is 0 when wins + losses = 0 and roi is 0 when the total units
\* wagered are 0.
C30_Classified ==
    report.called =>
        \A i \in Counted :
            /\ report.by_threshold[i].wins + report.by_threshold[i].losses
                   + report.by_threshold[i].pushes = report.by_threshold[i].triggers
            /\ (report.by_threshold[i].wins + report.by_threshold[i].losses = 0) =>
                   report.by_threshold[i].win_rate = R(0)
            /\ report.by_threshold[i].total_units_wagered = R(0) =>
                   report.by_threshold[i].roi = R(0)

\* the records counted at the i-th threshold whose game's result row has an
\* outcome that is none of win, loss and push
Unclassified(i) ==
    {k \in DOMAIN report.logs :
        /\ ThresholdHit(report.logs[k], report.results_by_game, ppm_buckets[i])
        /\ report.results_by_game[report.logs[k].game_id].outcome
               \notin {"win", "loss", "push"}}

\* wins + losses + pushes fall short of triggers by the unclassified records,
\* and the two rates are 0 where their divisor is
ClassifiedOrBlank ==
    report.called =>
        \A i \in Counted :
            /\ report.by_threshold[i].wins + report.by_threshold[i].losses
                   + report.by_threshold[i].pushes + Cardinality(Unclassified(i))
                   = report.by_threshold[i].triggers
            /\ (report.by_threshold[i].wins + report.by_threshold[i].losses = 0) =>
                   report.by_threshold[i].win_rate = R(0)
            /\ report.by_threshold[i].total_units_wagered = R(0) =>
                   report.by_threshold[i].roi = R(0)
            /\ Roi(R(0), R(0)) = R(0)

====
